---- MODULE Spec2Model ----
(***************************************************************************)
(* Model of the Solidity dependency resolver of hardhat v-next:            *)
(*   - RemappedNpmPackagesMap  (remapped-npm-packages-map.ts)              *)
(*   - NewResolverImplementation (new-dependency-resolver.ts)              *)
(*                                                                         *)
(* Strings are sequences of one-character strings, so that startsWith,     *)
(* endsWith, substring, indexOf and path joins are computed character by   *)
(* character as the code does.  The host is a posix one (path.sep = "/").  *)
(***************************************************************************)
EXTENDS Naturals, Sequences, FiniteSets, TLC

(***************************************************************************)
(* String primitives (methods of String.prototype)                         *)
(***************************************************************************)
\* undefined.  Every optional value is a record, so that it compares with None.
None == [undefined |-> TRUE]

StartsWith(s, p) == Len(p) <= Len(s) /\ SubSeq(s, 1, Len(p)) = p

EndsWith(s, p) == Len(p) <= Len(s) /\ SubSeq(s, Len(s) - Len(p) + 1, Len(s)) = p

Includes(s, p) == \E i \in 1..(Len(s) + 1) : i + Len(p) - 1 <= Len(s) /\ SubSeq(s, i, i + Len(p) - 1) = p

\* 1-based position of the first occurrence of character c at or after
\* position from; 0 when there is none (indexOf's -1).
IndexOfFrom(s, c, from) ==
  IF \E i \in from..Len(s) : s[i] = c
  THEN CHOOSE i \in from..Len(s) : s[i] = c /\ \A j \in from..(i - 1) : s[j] # c
  ELSE 0

IndexOf(s, c) == IndexOfFrom(s, c, 1)

LastIndexOf(s, c) ==
  IF \E i \in 1..Len(s) : s[i] = c
  THEN CHOOSE i \in 1..Len(s) : s[i] = c /\ \A j \in (i + 1)..Len(s) : s[j] # c
  ELSE 0

\* s.substring(n) with n a 0-based offset: drops the first n characters.
Drop(s, n) == SubSeq(s, n + 1, Len(s))

\* s.substring(0, n)
Take(s, n) == SubSeq(s, 1, n)

RECURSIVE Split(_, _)
\* s.split(c)
Split(s, c) ==
  LET i == IndexOf(s, c)
  IN IF i = 0 THEN <<s>> ELSE <<Take(s, i - 1)>> \o Split(Drop(s, i), c)

RECURSIVE JoinWith(_, _)
\* parts.join(c)
JoinWith(parts, c) ==
  IF parts = <<>> THEN <<>>
  ELSE IF Len(parts) = 1 THEN parts[1]
  ELSE parts[1] \o <<c>> \o JoinWith(Tail(parts), c)

RECURSIVE SelectNonEmpty(_)
SelectNonEmpty(parts) ==
  IF parts = <<>> THEN <<>>
  ELSE IF parts[1] = <<>> THEN SelectNonEmpty(Tail(parts))
  ELSE <<parts[1]>> \o SelectNonEmpty(Tail(parts))

(***************************************************************************)
(* Literals of the code                                                    *)
(***************************************************************************)
HARDHAT_PROJECT_ROOT_SOURCE_NAME == <<"p","r","o","j","e","c","t">>

S_node_modules == <<"n","o","d","e","_","m","o","d","u","l","e","s">>

S_node_modules_slash == S_node_modules \o <<"/">>

S_npm_slash == <<"n","p","m","/">>

S_package_json == <<"p","a","c","k","a","g","e",".","j","s","o","n">>

S_remappings_txt == <<"r","e","m","a","p","p","i","n","g","s",".","t","x","t">>

S_local == <<"l","o","c","a","l">>

S_dot == <<".">>

S_dotdot == <<".",".">>

PathSep == "/"

(***************************************************************************)
(* node:path on a posix host                                               *)
(***************************************************************************)
RECURSIVE NormalizeSegments(_, _, _)
\* The segment walk of path.posix.normalize: "." and empty segments are
\* dropped, ".." removes the previous segment (kept when there is none to
\* remove and the path is relative).
NormalizeSegments(segs, acc, isAbsolute) ==
  IF segs = <<>> THEN acc
  ELSE LET h == segs[1]
           t == Tail(segs)
       IN IF h = <<>> \/ h = S_dot THEN NormalizeSegments(t, acc, isAbsolute)
          ELSE IF h = S_dotdot
               THEN IF acc # <<>> /\ acc[Len(acc)] # S_dotdot
                    THEN NormalizeSegments(t, SubSeq(acc, 1, Len(acc) - 1), isAbsolute)
                    ELSE IF isAbsolute THEN NormalizeSegments(t, acc, isAbsolute)
                         ELSE NormalizeSegments(t, Append(acc, h), isAbsolute)
               ELSE NormalizeSegments(t, Append(acc, h), isAbsolute)

\* path.posix.normalize
PathNormalize(p) ==
  IF p = <<>> THEN S_dot
  ELSE LET isAbsolute == p[1] = "/"
           trailing == p[Len(p)] = "/"
           body == JoinWith(NormalizeSegments(Split(p, "/"), <<>>, isAbsolute), "/")
       IN IF body = <<>>
          THEN (IF isAbsolute THEN <<"/">> ELSE IF trailing THEN <<".", "/">> ELSE S_dot)
          ELSE (IF isAbsolute THEN <<"/">> ELSE <<>>) \o body \o (IF trailing THEN <<"/">> ELSE <<>>)

\* path.posix.join(...parts)
PathJoin(parts) ==
  LET ne == SelectNonEmpty(parts)
  IN IF ne = <<>> THEN S_dot ELSE PathNormalize(JoinWith(ne, "/"))

\* path.posix.dirname (no trailing slashes in the inputs of this model)
PathDirname(p) ==
  LET i == LastIndexOf(p, "/")
  IN IF i = 0 THEN S_dot
     ELSE IF i = 1 THEN <<"/">>
     ELSE Take(p, i - 1)

\* path.posix.basename
PathBasename(p) == Drop(p, LastIndexOf(p, "/"))

RECURSIVE CommonPrefixLen(_, _)
CommonPrefixLen(a, b) ==
  IF a = <<>> \/ b = <<>> \/ a[1] # b[1] THEN 0
  ELSE 1 + CommonPrefixLen(Tail(a), Tail(b))

\* path.posix.relative(from, to), both absolute
PathRelative(from, to) ==
  LET f == SelectNonEmpty(Split(PathNormalize(from), "/"))
      t == SelectNonEmpty(Split(PathNormalize(to), "/"))
      n == CommonPrefixLen(f, t)
      ups == [i \in 1..(Len(f) - n) |-> S_dotdot]
  IN JoinWith(ups \o SubSeq(t, n + 1, Len(t)), "/")

(***************************************************************************)
(* npm-moudles-parsing.ts                                                  *)
(***************************************************************************)
LowerLetters ==
  {"a","b","c","d","e","f","g","h","i","j","k","l","m",
   "n","o","p","q","r","s","t","u","v","w","x","y","z"}

Digits == {"0","1","2","3","4","5","6","7","8","9"}

\* [a-z0-9-~]
NpmNameStartChars == LowerLetters \cup Digits \cup {"-", "~"}

\* [a-z0-9-~._]
NpmNameChars == NpmNameStartChars \cup {".", "_"}

AllIn(s, chars) == \A i \in 1..Len(s) : s[i] \in chars

\* Variant of parseNpmDirectImport whose package name may start with any
\* character of the name class, "." included
parseNpmDirectImportAnyStart(directImport) ==
  LET hasScope == directImport # <<>> /\ directImport[1] = "@"
      slash1 == IndexOf(directImport, "/")
      scopeOk == slash1 > 2 /\ AllIn(SubSeq(directImport, 2, slash1 - 1), NpmNameChars)
      nameFrom == IF hasScope THEN slash1 + 1 ELSE 1
      slash2 == IndexOfFrom(directImport, "/", nameFrom)
      name == SubSeq(directImport, nameFrom, slash2 - 1)
      nameOk == slash2 > nameFrom /\ AllIn(name, NpmNameChars)
  IN IF (hasScope => scopeOk) /\ (hasScope => slash1 > 0) /\ slash2 > 0 /\ nameOk
     THEN [package |-> Take(directImport, slash2 - 1), subpath |-> Drop(directImport, slash2)]
     ELSE None

\* /^(?<package>(?:@[a-z0-9-~._]+\/)?[a-z0-9-~][a-z0-9-~._]*)\/(?<path>.*)$/
\* Neither character class holds "/", so the scope and the name end at the
\* first "/" that follows them and the match is unique.
parseNpmDirectImport(directImport) ==
  LET hasScope == directImport # <<>> /\ directImport[1] = "@"
      slash1 == IndexOf(directImport, "/")
      scopeOk == slash1 > 2 /\ AllIn(SubSeq(directImport, 2, slash1 - 1), NpmNameChars)
      nameFrom == IF hasScope THEN slash1 + 1 ELSE 1
      slash2 == IndexOfFrom(directImport, "/", nameFrom)
      name == SubSeq(directImport, nameFrom, slash2 - 1)
      nameOk == slash2 > nameFrom /\ name[1] \in NpmNameStartChars /\ AllIn(name, NpmNameChars)
  IN IF (hasScope => scopeOk) /\ (hasScope => slash1 > 0) /\ slash2 > 0 /\ nameOk
     THEN [package |-> Take(directImport, slash2 - 1), subpath |-> Drop(directImport, slash2)]
     ELSE None

getNpmPackageName(npmModuleOrsuffixOfModule) ==
  LET result == parseNpmDirectImport(npmModuleOrsuffixOfModule)
  IN IF result = None THEN None ELSE [name |-> result.package]

(***************************************************************************)
(* remappings.ts and source-name-utils.ts                                  *)
(***************************************************************************)
\* parseRemappingString: [<context> ':'] <prefix> '=' <target>.  The context
\* ends at the first ':' that comes before the first '='; a line without
\* '=', with an empty prefix or with an empty target does not parse.
parseRemappingString(remapping) ==
  LET eq == IndexOf(remapping, "=")
      colon == IndexOf(remapping, ":")
      hasContext == colon > 0 /\ colon < eq
      context == IF hasContext THEN Take(remapping, colon - 1) ELSE <<>>
      prefix == IF hasContext THEN SubSeq(remapping, colon + 1, eq - 1) ELSE Take(remapping, eq - 1)
      target == Drop(remapping, eq)
  IN IF eq = 0 \/ prefix = <<>> \/ target = <<>>
     THEN None
     ELSE [context |-> context, prefix |-> prefix, target |-> target]

\* sourceNamePathJoin: the parts joined with single "/" separators, runs
\* collapsed, as a posix path join.
sourceNamePathJoin(parts) == PathJoin(parts)

RECURSIVE ReplaceChar(_, _, _)
ReplaceChar(s, a, b) ==
  IF s = <<>> THEN <<>>
  ELSE <<IF s[1] = a THEN b ELSE s[1]>> \o ReplaceChar(Tail(s), a, b)

\* fsPathToSourceNamePath: the native separator replaced by "/"
fsPathToSourceNamePath(relativeFsPath) == ReplaceChar(relativeFsPath, PathSep, "/")

\* sourceNamePathToFsPath: "/" replaced by the native separator
sourceNamePathToFsPath(sourceNamePath) == ReplaceChar(sourceNamePath, "/", PathSep)

Whitespace == {" ", "\t", "\r"}

RECURSIVE TrimStart(_)
TrimStart(s) == IF s # <<>> /\ s[1] \in Whitespace THEN TrimStart(Tail(s)) ELSE s

RECURSIVE TrimEnd(_)
TrimEnd(s) ==
  IF s # <<>> /\ s[Len(s)] \in Whitespace THEN TrimEnd(SubSeq(s, 1, Len(s) - 1)) ELSE s

\* String.prototype.trim
Trim(s) == TrimEnd(TrimStart(s))

(***************************************************************************)
(* The file system the program runs on.  A world is a record               *)
(*   projectRoot   the project root path                                   *)
(*   packageJsons  the package.json files: [dir, name, version, exports]   *)
(*   links         symbolic links of installed packages: [from, to]        *)
(*   remappingsTxt the remappings.txt files in directory-walk order:       *)
(*                 [path, lines] with the raw lines of the file            *)
(*   files         the Solidity files, by absolute path in true casing     *)
(***************************************************************************)
Slash == <<"/">>

DotSol == <<".","s","o","l">>

\* Project /p with:
\*   node_modules/a   a@1, no remappings
\*   node_modules/b   a second installation of a@1
\*   node_modules/c   c@2, whose remappings.txt has an illegal line
\*   node_modules/d   d@1, which remaps into an uninstalled package and into a
\*   node_modules/s   a link to the project itself
\*   node_modules/m   a link to /w/m, a package of the same monorepo
\*   node_modules/r   r@1, whose exports map ./c/* to ./s/*
RootP == <<"/","p">>

NodeModulesP == RootP \o Slash \o S_node_modules

DirA == NodeModulesP \o <<"/","a">>

DirB == NodeModulesP \o <<"/","b">>

DirC == NodeModulesP \o <<"/","c">>

DirD == NodeModulesP \o <<"/","d">>

DirS == NodeModulesP \o <<"/","s">>

DirM == NodeModulesP \o <<"/","m">>

DirWM == <<"/","w","/","m">>

DirR == NodeModulesP \o <<"/","r">>

DirO == NodeModulesP \o <<"/","o">>

\* A directory outside the project whose name contains node_modules
DirWO == <<"/","w","/">> \o S_node_modules \o <<"2","/","o">>

ExportsOfR == [key |-> <<".","/","c","/","*">>, target |-> <<".","/","s","/","*">>]

Line_x_to_a == <<"x","/","=">> \o S_node_modules_slash \o <<"a","/">>

Line_f_to_g == <<" ","f","/","=","g","/"," ">>

Line_comment == <<" ","#"," ","f","/","=","h","/">>

Line_blank == <<" ","\t">>

Line_k_no_slash == <<"k","=","l","/">>

Line_no_equals == <<"a","s","d">>

Line_to_uninstalled == <<"u","/","=">> \o S_node_modules_slash \o <<"z","/","s","/">>

Line_y_to_a == <<"y","/","=">> \o S_node_modules_slash \o <<"a","/">>

Line_ctx_no_slash == <<"c",":","f","/","=","g","/">>

Line_v_to_c == <<"v","/","=">> \o S_node_modules_slash \o <<"c","/">>

Line_z_to_c == <<"z","/","=">> \o S_node_modules_slash \o <<"c","/">>

Line_q_to_a == <<"q","/","=">> \o S_node_modules_slash \o <<"a","/">>

Line_p_to_s == <<"p","/","=">> \o S_node_modules_slash \o <<"s","/">>

Line_w_to_d == <<"w","/","=">> \o S_node_modules_slash \o <<"d","/">>

Line_only_scope == <<"q","/","=">> \o S_node_modules_slash \o <<"@","o","/">>

Line_f_to_lib == <<"f","/","=","l","i","b","/">>

Line_f_g_to_g == <<"f","/","g","/","=","g","/">>

Line_x_to_m == <<"x","/","=">> \o S_node_modules_slash \o <<"m","/">>

Line_e_to_b_s == <<"e","/","=">> \o S_node_modules_slash \o <<"b","/","s","/">>

Line_c_h_to_i == <<" ","c","/",":","h","/","=","i","/","\t">>

Line_npm_j_to_npm == S_npm_slash \o <<"a","/",":","j","/","=">> \o S_npm_slash \o <<"a","/","k","/">>

Line_n_to_n == <<"n","/","=">> \o S_node_modules_slash \o <<"n","/">>

Line_c_to_c == <<"c","/","=">> \o S_node_modules_slash \o <<"c","/">>

Line_lib_m_to_lib == <<"l","i","b","/",":","m","/","=","l","i","b","/">>

Line_t_no_slash == <<"t","/","=","u">>

Line_project_g_to_lib == HARDHAT_PROJECT_ROOT_SOURCE_NAME \o <<"/","g","/","=","l","i","b","/">>

PackagesOfP ==
  { [dir |-> RootP, name |-> <<"t">>, version |-> <<"1">>, exports |-> None],
    [dir |-> DirA, name |-> <<"a">>, version |-> <<"1">>, exports |-> None],
    [dir |-> DirB, name |-> <<"a">>, version |-> <<"1">>, exports |-> None],
    [dir |-> DirC, name |-> <<"c">>, version |-> <<"2">>, exports |-> None],
    [dir |-> DirD, name |-> <<"d">>, version |-> <<"1">>, exports |-> None],
    [dir |-> DirWM, name |-> <<"m">>, version |-> <<"3">>, exports |-> None],
    [dir |-> DirWO, name |-> <<"o">>, version |-> <<"4">>, exports |-> None],
    [dir |-> DirR, name |-> <<"r">>, version |-> <<"1">>, exports |-> ExportsOfR] }

LinksOfP ==
  { [from |-> DirS, to |-> RootP], [from |-> DirM, to |-> DirWM], [from |-> DirO, to |-> DirWO] }

FilesOfP ==
  { RootP \o <<"/","A">> \o DotSol,
    RootP \o <<"/","g","/","X">> \o DotSol,
    RootP \o <<"/","l","i","b","/","L">> \o DotSol,
    RootP \o <<"x","/","B">> \o DotSol,
    RootP \o <<"/","l","i","b","/">> \o S_node_modules \o <<"/","q","/","Q">> \o DotSol,
    DirA \o <<"/","A">> \o DotSol,
    DirB \o <<"/","A">> \o DotSol,
    DirC \o <<"/","C">> \o DotSol,
    DirD \o <<"/","D">> \o DotSol,
    DirWM \o <<"/","M">> \o DotSol,
    DirR \o <<"/","R">> \o DotSol,
    DirR \o <<"/","c","/","R">> \o DotSol,
    DirR \o <<"/","s","/","R">> \o DotSol }

RemappingsTxtOf(dir) == dir \o Slash \o S_remappings_txt

\* Construction succeeds: the packages with illegal remappings (c, d) are
\* only reached by imports.
WorldLazyErrors ==
  [ projectRoot |-> RootP,
    packageJsons |-> PackagesOfP,
    links |-> LinksOfP,
    remappingsTxt |->
      << [path |-> RemappingsTxtOf(RootP \o <<"/","l","i","b">>),
          lines |-> <<Line_x_to_a, Line_c_h_to_i, Line_npm_j_to_npm>>],
         [path |-> RemappingsTxtOf(RootP \o <<"/","l","i","b","2">>),
          lines |-> <<Line_c_h_to_i>>],
         [path |-> RemappingsTxtOf(RootP),
          lines |-> <<Line_f_g_to_g, Line_f_to_lib, Line_f_to_g, Line_blank, Line_comment,
                      Line_x_to_m, Line_project_g_to_lib, Line_e_to_b_s, Line_n_to_n,
                      Line_c_to_c, Line_lib_m_to_lib>>],
         [path |-> RemappingsTxtOf(DirC), lines |-> <<Line_k_no_slash, Line_y_to_a>>],
         [path |-> RemappingsTxtOf(DirD), lines |-> <<Line_to_uninstalled, Line_y_to_a>>] >>,
    files |-> FilesOfP ]

\* Construction fails: the project's remappings are illegal in two files and
\* reach c and d, whose own remappings are illegal too.
WorldEagerErrors ==
  [ projectRoot |-> RootP,
    packageJsons |-> PackagesOfP,
    links |-> LinksOfP,
    remappingsTxt |->
      << [path |-> RemappingsTxtOf(RootP \o <<"/","l","i","b">>),
          lines |-> <<Line_no_equals, Line_v_to_c, Line_w_to_d, Line_ctx_no_slash>>],
         [path |-> RemappingsTxtOf(RootP),
          lines |-> <<Line_f_to_g, Line_only_scope, Line_t_no_slash>>],
         [path |-> RemappingsTxtOf(DirC), lines |-> <<Line_k_no_slash, Line_y_to_a>>],
         [path |-> RemappingsTxtOf(DirD), lines |-> <<Line_to_uninstalled, Line_y_to_a>>] >>,
    files |-> FilesOfP ]

\* Construction succeeds with no remappings.txt anywhere.
WorldNoRemappings ==
  [ projectRoot |-> RootP,
    packageJsons |-> PackagesOfP,
    links |-> LinksOfP,
    remappingsTxt |-> <<>>,
    files |-> FilesOfP ]

Worlds == {WorldLazyErrors, WorldEagerErrors, WorldNoRemappings}

\* Remappings that form cycles: the project remaps into a, a remaps into c,
\* into itself and into the project (through the link s), c remaps into a.
WorldCycles ==
  [ projectRoot |-> RootP,
    packageJsons |-> PackagesOfP,
    links |-> LinksOfP,
    remappingsTxt |->
      << [path |-> RemappingsTxtOf(RootP), lines |-> <<Line_x_to_a>>],
         [path |-> RemappingsTxtOf(DirA), lines |-> <<Line_z_to_c, Line_q_to_a, Line_p_to_s>>],
         [path |-> RemappingsTxtOf(DirC), lines |-> <<Line_y_to_a>>] >>,
    files |-> FilesOfP ]

(***************************************************************************)
(* State                                                                   *)
(*                                                                         *)
(* Objects have identity: a Package is its index in map.packages (its id), *)
(* a remapping and a resolved file carry the id they were allocated with.  *)
(***************************************************************************)
VARIABLES
  fs,                        \* the world; files may be written to it
  phase,                     \* "new", "creating" (create awaits the loop of the
                             \* queue), "created" (create succeeded), "failed"
  map,                       \* the RemappedNpmPackagesMap
  createResult,              \* what create returned
  resolvedFileBySourceName,  \* NewResolverImplementation.#resolvedFileBySourceName
  ret,                       \* the last call, what it returned, and what the caller
                             \* had seen before it (before, repeated)
  readCount,                 \* fsPath -> number of readFileContent calls so far
  firstRemappings,           \* package id -> the first list getUserRemappings returned
  calls,                     \* public calls made since create
  acquired,                  \* whether the resolver's mutex is held
  callers,                   \* the concurrent callers of the public methods:
                             \* [pc, request, held]
  created,                   \* the objects the public methods created, as
                             \* <<"file", sourceName>> or <<"package", rootSourceName>>
  loop,                      \* the running #resolveAnyRemainingRemappings: its
                             \* position, the rounds it made and the method that
                             \* awaits it
  loopErrors,                \* the errors array of the running
                             \* #resolveAnyRemainingRemappings
  coverageManager,           \* LazyCoverageManager.#coverageManager
  constructed,               \* the PublicCoverageManagerImplementation objects
                             \* constructed so far
  coverageCalls              \* the save() and load() calls of the
                             \* LazyCoverageManager: [pc, method, coverageManager]

coverageVars == <<coverageManager, constructed, coverageCalls>>

vars == <<fs, phase, map, createResult, resolvedFileBySourceName, ret, readCount, firstRemappings,
          calls, acquired, callers, created, loop, loopErrors, coverageVars>>

(***************************************************************************)
(* @nomicfoundation/hardhat-utils: fs and package                          *)
(***************************************************************************)
\* The real path of an installation directory (links are followed).
RealPath(p) ==
  IF \E l \in fs.links : l.from = p
  THEN (CHOOSE l \in fs.links : l.from = p).to
  ELSE p

HasPackageJson(dir) == \E j \in fs.packageJsons : j.dir = dir

readJsonFile(packageJsonPath) == CHOOSE j \in fs.packageJsons : j.dir = PathDirname(packageJsonPath)

RECURSIVE LookupUp(_, _)
\* The node-module lookup: <ancestor>/node_modules/<name>/package.json, from
\* the directory upwards.
LookupUp(dir, installationName) ==
  LET candidate == RealPath(PathJoin(<<dir, S_node_modules, installationName>>))
  IN IF PathBasename(dir) # S_node_modules /\ HasPackageJson(candidate)
     THEN [path |-> PathJoin(<<candidate, S_package_json>>)]
     ELSE IF dir = Slash THEN None
     ELSE LookupUp(PathDirname(dir), installationName)

findDependencyPackageJson(from, installationName) == LookupUp(from, installationName)

RECURSIVE DirectoriesWalked(_, _)
\* Whether the walk from root descends into dir: no directory on the way is
\* refused by the filter (f) => !f.endsWith("node_modules").
DirectoriesWalked(root, dir) ==
  IF dir = root THEN TRUE
  ELSE ~EndsWith(dir, S_node_modules) /\ DirectoriesWalked(root, PathDirname(dir))

\* getAllFilesMatching(rootFsPath, basename = "remappings.txt", directory filter)
RemappingsTxtFilesOf(rootFsPath) ==
  SelectSeq(fs.remappingsTxt,
            LAMBDA f : /\ StartsWith(f.path, rootFsPath \o Slash)
                       /\ PathBasename(f.path) = S_remappings_txt
                       /\ DirectoriesWalked(rootFsPath, PathDirname(f.path)))

(***************************************************************************)
(* RemappedNpmPackagesMap                                                  *)
(***************************************************************************)
ProjectId == 1

hardhatProjectPackage(m) == m.packages[ProjectId]

\* new RemappedNpmPackagesMap fields, before the constructor body runs
EmptyMap ==
  [ packages |-> <<>>,
    installationMap |-> <<>>,
    packageByRootSourceName |-> <<>>,
    userRemappingsPerPackage |-> <<>>,
    remappingsToResolve |-> <<>>,
    nextObject |-> 1,
    generatedFor |-> <<>>,
    enqueued |-> <<>>,
    discovered |-> <<>>,
    abandoned |-> <<>> ]

\* #insertNewPackage
InsertNewPackage(m, npmPackage) ==
  [m EXCEPT !.packages = Append(@, npmPackage),
            !.installationMap = Append(@, <<>>),
            !.packageByRootSourceName = (npmPackage.rootSourceName :> npmPackage.id) @@ @,
            !.remappingsToResolve = Append(@, npmPackage.id),
            !.enqueued = Append(@, npmPackage.id)]

\* #generateNpmRemapping; the object is allocated with the next id
generateNpmRemapping(m, from, installationName, to) ==
  [ id |-> m.nextObject,
    context |-> m.packages[from].rootSourceName \o Slash,
    prefix |-> installationName \o Slash,
    target |-> m.packages[to].rootSourceName \o Slash ]

\* #isPackageJsonFromMonorepo
isPackageJsonFromMonorepo(m, packageJsonFsPath) ==
  /\ ~Includes(packageJsonFsPath, S_node_modules)
  /\ ~StartsWith(packageJsonFsPath, hardhatProjectPackage(m).rootFsPath \o <<PathSep>>)

\* #npmPackageToRootSourceName
npmPackageToRootSourceName(name, version) == S_npm_slash \o name \o <<"@">> \o version

\* Variant of DependencyRootSourceName without the case of the project's own
\* package.json
RootSourceNameOfAnyPackage(m, dependencyPackageJsonPath, name, dependencyVersion) ==
  npmPackageToRootSourceName(name, dependencyVersion)

\* The root source name #resolveDependencyByInstallationName computes for
\* the package.json it found.
DependencyRootSourceName(m, dependencyPackageJsonPath, name, dependencyVersion) ==
  IF dependencyPackageJsonPath = PathJoin(<<hardhatProjectPackage(m).rootFsPath, S_package_json>>)
  THEN HARDHAT_PROJECT_ROOT_SOURCE_NAME
  ELSE npmPackageToRootSourceName(name, dependencyVersion)

\* Variant of ExistingPackageBySourceName that never finds a loaded package
NoPackageBySourceName(m, rootSourceName) == None

\* this.#packageByRootSourceName.get(rootSourceName)
ExistingPackageBySourceName(m, rootSourceName) ==
  IF rootSourceName \in DOMAIN m.packageByRootSourceName
  THEN [id |-> m.packageByRootSourceName[rootSourceName]]
  ELSE None

\* Variant of ExistingDependencyByInstallationName that never finds an edge
NoDependencyByInstallationName(m, from, installationName) == None

\* npmPackageDependenciesMap.get(installationName)
ExistingDependencyByInstallationName(m, from, installationName) ==
  IF installationName \in DOMAIN m.installationMap[from]
  THEN m.installationMap[from][installationName]
  ELSE None

\* The edge from -> installationName -> to, recorded with a freshly
\* generated remapping (lines 637-648 and 663-675).
RecordEdge(m, from, installationName, to) ==
  LET edge == [package |-> to,
               generatedRemapping |-> generateNpmRemapping(m, from, installationName, to)]
  IN [ m |-> [m EXCEPT !.installationMap[from] = (installationName :> edge) @@ @,
                       !.nextObject = @ + 1,
                       !.generatedFor = Append(@, <<from, installationName>>)],
       result |-> edge ]

\* The package object created for a package.json found for the first time
NewDependencyNpmPackage(m, dependencyPackageJsonPath, dependencyPackageJson, dependencyVersion, rootSourceName) ==
  [ id |-> Len(m.packages) + 1,
    name |-> dependencyPackageJson.name,
    version |-> dependencyVersion,
    rootFsPath |-> PathDirname(dependencyPackageJsonPath),
    rootSourceName |-> rootSourceName,
    exports |-> dependencyPackageJson.exports ]

\* this.#remappingsToResolve.push(npmPackage) alone
Requeue(m, npmPackage) ==
  [m EXCEPT !.remappingsToResolve = Append(@, npmPackage), !.enqueued = Append(@, npmPackage)]

\* Variant of RegisterDependencyAs that enqueues the package again when it
\* reuses it
RegisterDependencyAsRequeued(m, from, installationName, dependencyPackageJsonPath, dependencyPackageJson, dependencyVersion, rootSourceName) ==
  IF ExistingPackageBySourceName(m, rootSourceName) # None
  THEN RecordEdge(Requeue(m, ExistingPackageBySourceName(m, rootSourceName).id),
                  from, installationName, ExistingPackageBySourceName(m, rootSourceName).id)
  ELSE RecordEdge(InsertNewPackage(m, NewDependencyNpmPackage(m, dependencyPackageJsonPath,
                                        dependencyPackageJson, dependencyVersion, rootSourceName)),
                  from, installationName, Len(m.packages) + 1)

\* Lines 632-675: reuse of the package with that root source name, or its
\* insertion; the edge is recorded in both cases.
RegisterDependencyAs(m, from, installationName, dependencyPackageJsonPath, dependencyPackageJson, dependencyVersion, rootSourceName) ==
  IF ExistingPackageBySourceName(m, rootSourceName) # None
  THEN RecordEdge(m, from, installationName, ExistingPackageBySourceName(m, rootSourceName).id)
  ELSE RecordEdge(InsertNewPackage(m, NewDependencyNpmPackage(m, dependencyPackageJsonPath,
                                        dependencyPackageJson, dependencyVersion, rootSourceName)),
                  from, installationName, Len(m.packages) + 1)

\* The project's own package, built by create
ProjectPackage(projectRootPath, projectPackageJson) ==
  [ id |-> ProjectId,
    name |-> projectPackageJson.name,
    version |-> projectPackageJson.version,
    exports |-> projectPackageJson.exports,
    rootFsPath |-> projectRootPath,
    rootSourceName |-> HARDHAT_PROJECT_ROOT_SOURCE_NAME ]

\* Lines 615-675 of #resolveDependencyByInstallationName: the package.json
\* was found and read.
RegisterDependency(m, from, installationName, dependencyPackageJsonPath, dependencyPackageJson) ==
  LET dependencyVersion ==
        IF isPackageJsonFromMonorepo(m, dependencyPackageJsonPath)
        THEN S_local ELSE dependencyPackageJson.version
  IN RegisterDependencyAs(m, from, installationName, dependencyPackageJsonPath,
                          dependencyPackageJson, dependencyVersion,
                          DependencyRootSourceName(m, dependencyPackageJsonPath,
                                                   dependencyPackageJson.name, dependencyVersion))

\* Lines 597-610: the lookup of the package.json and its reading
ResolveFoundDependency(m, from, installationName, found) ==
  IF found = None THEN [m |-> m, result |-> None]
  ELSE RegisterDependency(m, from, installationName, found.path, readJsonFile(found.path))

\* #resolveDependencyByInstallationName: [m, result], result None when the
\* dependency is not installed.
ResolveDependencyInternal(m, from, installationName) ==
  IF ExistingDependencyByInstallationName(m, from, installationName) # None
  THEN [m |-> m, result |-> ExistingDependencyByInstallationName(m, from, installationName)]
  ELSE ResolveFoundDependency(m, from, installationName,
         findDependencyPackageJson(m.packages[from].rootFsPath, installationName))

\* Variant of updateRemappingsTxFragment that leaves out the directory of the
\* remappings.txt file
updateRemappingsTxFragmentAtRoot(m, from, relativeFsPathToRemappingsFileFromPackage, remappingFragment) ==
  IF StartsWith(remappingFragment, S_npm_slash) THEN remappingFragment
  ELSE sourceNamePathJoin(<<m.packages[from].rootSourceName \o Slash, remappingFragment>>)

\* #updateRemappingsTxFragment
updateRemappingsTxFragment(m, from, relativeFsPathToRemappingsFileFromPackage, remappingFragment) ==
  IF StartsWith(remappingFragment, S_npm_slash) THEN remappingFragment
  ELSE sourceNamePathJoin(
         << m.packages[from].rootSourceName \o Slash,
            IF EndsWith(relativeFsPathToRemappingsFileFromPackage, Slash)
            THEN relativeFsPathToRemappingsFileFromPackage
            ELSE relativeFsPathToRemappingsFileFromPackage \o Slash,
            remappingFragment >>)

UserRemappingError(type, source, remapping) ==
  [type |-> type, source |-> source, remapping |-> remapping]

\* Variant of PushUserRemapping that pushes to the list of the project
PushUserRemappingToProject(m, npmPackage, remapping) ==
  [m EXCEPT !.userRemappingsPerPackage[ProjectId] = Append(@, [id |-> m.nextObject] @@ remapping),
            !.nextObject = @ + 1]

\* npmPackageRemappings.push(remapping): the new object gets the next id
PushUserRemapping(m, npmPackage, remapping) ==
  [m EXCEPT !.userRemappingsPerPackage[npmPackage] = Append(@, [id |-> m.nextObject] @@ remapping),
            !.nextObject = @ + 1]

\* Variant of HasSlashEndings that checks the prefix only
HasPrefixSlashEnding(remapping) == EndsWith(remapping.prefix, Slash)

\* The slash-endings check of #validateAndResolveUserRemapping
HasSlashEndings(remapping) ==
  ~ \/ (Len(remapping.context) > 0 /\ ~EndsWith(remapping.context, Slash))
    \/ ~EndsWith(remapping.prefix, Slash)
    \/ ~EndsWith(remapping.target, Slash)

\* Variant of PushNpmUserRemapping that stores the target as it was written
PushNpmUserRemappingUnrewritten(dep, npmPackage, sourceOfTheRemapping, remappingString, remapping, context, target, installationName) ==
  IF dep.result = None
  THEN [m |-> dep.m,
        error |-> UserRemappingError("REMAPPING_TO_UNINSTALLED_PACKAGE",
                                     sourceOfTheRemapping, remappingString)]
  ELSE [m |-> PushUserRemapping(dep.m, npmPackage,
                [ context |-> context,
                  prefix |-> remapping.prefix,
                  originalFormat |-> remappingString,
                  source |-> sourceOfTheRemapping,
                  target |-> remapping.target,
                  targetNpmPackage |->
                    [ installationName |-> installationName,
                      package |-> dep.result.package ] ]),
        error |-> None]

\* Lines 518-552: the dependency the npm remapping targets was looked up
PushNpmUserRemapping(dep, npmPackage, sourceOfTheRemapping, remappingString, remapping, context, target, installationName) ==
  IF dep.result = None
  THEN [m |-> dep.m,
        error |-> UserRemappingError("REMAPPING_TO_UNINSTALLED_PACKAGE",
                                     sourceOfTheRemapping, remappingString)]
  ELSE [m |-> PushUserRemapping(dep.m, npmPackage,
                [ context |-> context,
                  prefix |-> remapping.prefix,
                  originalFormat |-> remappingString,
                  source |-> sourceOfTheRemapping,
                  target |-> dep.m.packages[dep.result.package].rootSourceName
                               \o Drop(target, Len(installationName)),
                  targetNpmPackage |->
                    [ installationName |-> installationName,
                      package |-> dep.result.package ] ]),
        error |-> None]

\* Variant of ResolveNpmUserRemapping that looks up the dependency of every
\* npm remapping
ResolveNpmUserRemappingAlways(m, npmPackage, sourceOfTheRemapping, remappingString, remapping, context, target, installationName) ==
  IF installationName = None
  THEN [m |-> m,
        error |-> UserRemappingError("REMAPPING_WITH_INVALID_SYNTAX",
                                     sourceOfTheRemapping, remappingString)]
  ELSE PushNpmUserRemapping(ResolveDependencyInternal(m, npmPackage, installationName.name),
                            npmPackage, sourceOfTheRemapping, remappingString, remapping,
                            context, target, installationName.name)

\* Lines 491-517: a remapping whose target starts with node_modules/
ResolveNpmUserRemapping(m, npmPackage, sourceOfTheRemapping, remappingString, remapping, context, target, installationName) ==
  IF remapping.prefix = target THEN [m |-> m, error |-> None]
  ELSE IF installationName = None
  THEN [m |-> m,
        error |-> UserRemappingError("REMAPPING_WITH_INVALID_SYNTAX",
                                     sourceOfTheRemapping, remappingString)]
  ELSE PushNpmUserRemapping(ResolveDependencyInternal(m, npmPackage, installationName.name),
                            npmPackage, sourceOfTheRemapping, remappingString, remapping,
                            context, target, installationName.name)

\* Lines 466-489: the context is rewritten; a local remapping is stored
ResolveRewrittenUserRemapping(m, npmPackage, sourceOfTheRemapping, remappingString, remapping, relativeFsPathToRemappingsFile, context) ==
  IF ~StartsWith(remapping.target, S_node_modules_slash)
  THEN [m |-> PushUserRemapping(m, npmPackage,
                [ context |-> context,
                  prefix |-> remapping.prefix,
                  target |-> updateRemappingsTxFragment(m, npmPackage,
                               relativeFsPathToRemappingsFile, remapping.target),
                  originalFormat |-> remappingString,
                  source |-> sourceOfTheRemapping,
                  targetNpmPackage |-> None ]),
        error |-> None]
  ELSE ResolveNpmUserRemapping(m, npmPackage, sourceOfTheRemapping, remappingString, remapping,
                               context, Drop(remapping.target, Len(S_node_modules_slash)),
                               getNpmPackageName(Drop(remapping.target, Len(S_node_modules_slash))))

\* Lines 461-465: the directory of the remappings file, relative to the package
ResolveValidUserRemapping(m, npmPackage, sourceOfTheRemapping, remappingString, remapping, relativeFsPathToRemappingsFile) ==
  ResolveRewrittenUserRemapping(m, npmPackage, sourceOfTheRemapping, remappingString, remapping,
    relativeFsPathToRemappingsFile,
    updateRemappingsTxFragment(m, npmPackage, relativeFsPathToRemappingsFile, remapping.context))

\* Variant of ValidateParsedUserRemapping that reports a remapping without
\* slash endings as a syntax error
ValidateParsedUserRemappingOneKind(m, npmPackage, sourceOfTheRemapping, remappingString, remapping) ==
  IF remapping = None \/ ~HasSlashEndings(remapping)
  THEN [m |-> m,
        error |-> UserRemappingError("REMAPPING_WITH_INVALID_SYNTAX",
                                     sourceOfTheRemapping, remappingString)]
  ELSE ResolveValidUserRemapping(m, npmPackage, sourceOfTheRemapping, remappingString, remapping,
         PathRelative(m.packages[npmPackage].rootFsPath, PathDirname(sourceOfTheRemapping)))

\* Lines 437-459: the syntax and the slash-endings checks
ValidateParsedUserRemapping(m, npmPackage, sourceOfTheRemapping, remappingString, remapping) ==
  IF remapping = None
  THEN [m |-> m,
        error |-> UserRemappingError("REMAPPING_WITH_INVALID_SYNTAX",
                                     sourceOfTheRemapping, remappingString)]
  ELSE IF ~HasSlashEndings(remapping)
  THEN [m |-> m,
        error |-> UserRemappingError("ILLEGAL_REMAPPING_WIHTOUT_SLASH_ENDINGS",
                                     sourceOfTheRemapping, remappingString)]
  ELSE ResolveValidUserRemapping(m, npmPackage, sourceOfTheRemapping, remappingString, remapping,
         PathRelative(m.packages[npmPackage].rootFsPath, PathDirname(sourceOfTheRemapping)))

\* #validateAndResolveUserRemapping: [m, error], error None when the line
\* was accepted or skipped.
ValidateAndResolveUserRemapping(m, npmPackage, sourceOfTheRemapping, remappingString) ==
  ValidateParsedUserRemapping(m, npmPackage, sourceOfTheRemapping, remappingString,
                              parseRemappingString(remappingString))

RECURSIVE MapTrim(_)
MapTrim(lines) == IF lines = <<>> THEN <<>> ELSE <<Trim(lines[1])>> \o MapTrim(Tail(lines))

\* split("\n").map(trim).filter(non-empty).filter(not a comment); the file is
\* given as its lines
RawUserRemappings(lines) ==
  SelectSeq(MapTrim(lines), LAMBDA line : line # <<>> /\ ~StartsWith(line, <<"#">>))

\* Variant of PushError that puts the new error first
UnshiftError(r, errors) ==
  [m |-> r.m, errors |-> IF r.error # None THEN <<r.error>> \o errors ELSE errors]

\* if (result !== undefined) { errors.push(result) }
PushError(r, errors) ==
  [m |-> r.m, errors |-> IF r.error # None THEN Append(errors, r.error) ELSE errors]

RECURSIVE ResolveLines(_, _, _, _)
\* for (const userRemapping of rawUserRemappings) { ... }; acc is [m, errors],
\* what the lines before left (never None: the test makes TLC evaluate it
\* before the next line is taken)
ResolveLines(acc, npmPackage, remappingsTxtFsPath, rawUserRemappings) ==
  IF rawUserRemappings = <<>> \/ acc = None THEN acc
  ELSE ResolveLines(PushError(ValidateAndResolveUserRemapping(acc.m, npmPackage,
                                remappingsTxtFsPath, rawUserRemappings[1]),
                              acc.errors),
                    npmPackage, remappingsTxtFsPath, Tail(rawUserRemappings))

RECURSIVE ResolveFilesLastFirst(_, _, _)
\* Variant of ResolveFiles that takes the files from the last to the first
ResolveFilesLastFirst(acc, npmPackage, remappingsTxtFiles) ==
  IF remappingsTxtFiles = <<>> \/ acc = None THEN acc
  ELSE ResolveFilesLastFirst(ResolveLines(acc, npmPackage,
                                          remappingsTxtFiles[Len(remappingsTxtFiles)].path,
                                          RawUserRemappings(remappingsTxtFiles[Len(remappingsTxtFiles)].lines)),
                             npmPackage, SubSeq(remappingsTxtFiles, 1, Len(remappingsTxtFiles) - 1))

RECURSIVE ResolveFiles(_, _, _)
\* for (const remappingsTxtFsPath of remappingsTxtFiles) { ... }
ResolveFiles(acc, npmPackage, remappingsTxtFiles) ==
  IF remappingsTxtFiles = <<>> \/ acc = None THEN acc
  ELSE ResolveFiles(ResolveLines(acc, npmPackage, remappingsTxtFiles[1].path,
                                 RawUserRemappings(remappingsTxtFiles[1].lines)),
                    npmPackage, Tail(remappingsTxtFiles))

\* await getAllFilesMatching(npmPackage.rootFsPath, ...): the remappings.txt
\* files of the package were looked for, noted in the order of the calls
Discover(m, npmPackage) == [m EXCEPT !.discovered = Append(@, npmPackage)]

\* #validateAndResolveUserRemappingsOfAnExistingPackage: [m, errors]
ValidateAndResolveUserRemappingsOfAnExistingPackage(m, npmPackage) ==
  ResolveFiles([m |-> Discover(m, npmPackage), errors |-> <<>>], npmPackage,
               RemappingsTxtFilesOf(m.packages[npmPackage].rootFsPath))

\* The package the loop of #resolveAnyRemainingRemappings takes next
NextToResolve(m) == m.remappingsToResolve[1]

\* this.#userRemappingsPerPackage.set(npmPackage, [])
SetEmptyUserRemappings(m, npmPackage) ==
  [m EXCEPT !.userRemappingsPerPackage = (npmPackage :> <<>>) @@ @]

\* this.#remappingsToResolve.shift()
Shift(m) == [m EXCEPT !.remappingsToResolve = Tail(@)]

\* Variant of PushErrors that keeps only the errors of the first package that
\* had any
KeepFirstErrors(errors, userRemappingErrors) ==
  IF errors = <<>> THEN userRemappingErrors ELSE errors

\* errors.push(...userRemappingErrors)
PushErrors(errors, userRemappingErrors) == errors \o userRemappingErrors

\* The end of one round of the loop of #resolveAnyRemainingRemappings
AfterPackage(r, errors) == [m |-> Shift(r.m), errors |-> PushErrors(errors, r.errors)]

\* Variant of QueueNotEmpty that leaves the loop at the last package
QueueHasSeveral(m) == Len(m.remappingsToResolve) > 1

\* while (this.#remappingsToResolve.length > 0)
QueueNotEmpty(m) == Len(m.remappingsToResolve) > 0

RECURSIVE ResolveRemaining(_)
\* while (this.#remappingsToResolve.length > 0) { ... }; acc is [m, errors]
ResolveRemaining(acc) ==
  IF ~QueueNotEmpty(acc.m) THEN acc
  ELSE ResolveRemaining(
         AfterPackage(ValidateAndResolveUserRemappingsOfAnExistingPackage(
                        SetEmptyUserRemappings(acc.m, NextToResolve(acc.m)), NextToResolve(acc.m)),
                      acc.errors))

\* #resolveAnyRemainingRemappings: [m, errors]
ResolveAnyRemainingRemappings(m) == ResolveRemaining([m |-> m, errors |-> <<>>])

\* RemappedNpmPackagesMap.create up to the construction of the map
ConstructMap(projectRootPath) ==
  InsertNewPackage(EmptyMap, ProjectPackage(projectRootPath,
                                            readJsonFile(PathJoin(<<projectRootPath, S_package_json>>))))

\* The Result create returns for the errors of the drain
CreateResultOf(errors) ==
  IF Len(errors) > 0
  THEN [success |-> FALSE, error |-> errors]
  ELSE [success |-> TRUE]

\* Variant of DrainAfterResolve that leaves the queue as it is
NoDrain(m) == [m |-> m, errors |-> <<>>]

\* What the public resolveDependencyByInstallationName does after the
\* dependency was found: drain the queue.
DrainAfterResolve(m) == ResolveAnyRemainingRemappings(m)

\* Lines 266-277: the object the public method returns
DependencyResolution(edge, drained) ==
  [ m |-> drained.m,
    result |-> [ package |-> edge.package,
                 generatedRemapping |-> edge.generatedRemapping,
                 remappingErrros |-> IF Len(drained.errors) > 0
                                     THEN [errors |-> drained.errors]
                                     ELSE None ] ]

\* Lines 258-265: undefined when the dependency is not installed
DrainForDependency(dependency) ==
  IF dependency.result = None THEN [m |-> dependency.m, result |-> None]
  ELSE DependencyResolution(dependency.result, DrainAfterResolve(dependency.m))

\* RemappedNpmPackagesMap.resolveDependencyByInstallationName: [m, result]
ResolveDependencyByInstallationName(m, from, installationName) ==
  DrainForDependency(ResolveDependencyInternal(m, from, installationName))

\* getUserRemappings: the list, or the failed invariant assertion
getUserRemappings(m, npmPackage) ==
  IF npmPackage \in DOMAIN m.userRemappingsPerPackage
  THEN [list |-> m.userRemappingsPerPackage[npmPackage]]
  ELSE [assertion |-> "The npm package must be present in the map and their user remappings resolved"]

\* generateRemappingIntoNpmFile (a new object on every call, never stored)
generateRemappingIntoNpmFile(m, fromNpmPackage, directImport, sourceName) ==
  [ context |-> m.packages[fromNpmPackage].rootSourceName \o Slash,
    prefix |-> directImport,
    target |-> sourceName ]


(***************************************************************************)
(* @nomicfoundation/hardhat-utils/fs: getFileTrueCase, exists; and         *)
(* resolve.exports                                                         *)
(***************************************************************************)
UpperLetters ==
  <<"A","B","C","D","E","F","G","H","I","J","K","L","M",
    "N","O","P","Q","R","S","T","U","V","W","X","Y","Z">>

LowerOfUpper ==
  <<"a","b","c","d","e","f","g","h","i","j","k","l","m",
    "n","o","p","q","r","s","t","u","v","w","x","y","z">>

ToLowerChar(c) ==
  IF \E i \in 1..Len(UpperLetters) : UpperLetters[i] = c
  THEN LowerOfUpper[CHOOSE i \in 1..Len(UpperLetters) : UpperLetters[i] = c]
  ELSE c

\* String.prototype.toLowerCase
ToLowerCase(s) == [i \in 1..Len(s) |-> ToLowerChar(s[i])]

\* The files of the world that getFileTrueCase(from, relative) may find: it
\* walks the directories from `from` along the segments of `relative`,
\* matching each directory entry ignoring case.  A "." or ".." segment
\* matches no entry.
TrueCaseCandidates(from, relative) ==
  { f \in fs.files :
      /\ StartsWith(f, from \o Slash)
      /\ ToLowerCase(Drop(f, Len(from) + 1)) = ToLowerCase(relative) }

\* getFileTrueCase: [trueCase] or None for FileNotFoundError
getFileTrueCase(from, relative) ==
  IF TrueCaseCandidates(from, relative) = {} THEN None
  ELSE LET f == CHOOSE f \in TrueCaseCandidates(from, relative) : TRUE
       IN [trueCase |-> Drop(f, Len(from) + 1)]

\* exists(absolutePath): a file or a directory of the world
exists(absolutePath) ==
  \E f \in fs.files : f = absolutePath \/ StartsWith(f, absolutePath \o Slash)

\* resolve.exports(pkg, subpath, {conditions: []}) for an exports field of one
\* pattern entry [key, target], each with one "*": the target with the "*"
\* replaced by what the key's "*" matched; None when the entry does not
\* match (resolve.exports throws).
ResolveExports(exports, subpath) ==
  LET entry == <<".", "/">> \o subpath
      star == IndexOf(exports.key, "*")
      keyPrefix == Take(exports.key, star - 1)
      keySuffix == Drop(exports.key, star)
      matches == /\ Len(entry) >= Len(keyPrefix) + Len(keySuffix)
                 /\ StartsWith(entry, keyPrefix)
                 /\ EndsWith(entry, keySuffix)
      matched == SubSeq(entry, Len(keyPrefix) + 1, Len(entry) - Len(keySuffix))
      tstar == IndexOf(exports.target, "*")
  IN IF matches
     THEN [output |-> Take(exports.target, tstar - 1) \o matched \o Drop(exports.target, tstar)]
     ELSE None

(***************************************************************************)
(* NewResolverImplementation.  The resolver state threaded through the     *)
(* operators is st = [map, files, readCount, validated]; validated holds   *)
(* the paths the running operation has passed to validateFsPath.           *)
(***************************************************************************)
Success(value) == [kind |-> "success", value |-> value]

Failure(error) == [kind |-> "failure", error |-> error]

\* An exception leaving the operation (throw new Error, a failed assertion)
Thrown(message) == [kind |-> "thrown", message |-> message]

\* Lines 1138-1157 of validateFsPath: the true casing was looked up
ValidateTrueCase(relative, trueCaseFsPath) ==
  IF trueCaseFsPath = None THEN Failure([type |-> "DOESNT_EXIST"])
  ELSE IF relative # trueCaseFsPath.trueCase
  THEN Failure([type |-> "CASING_ERROR", correctCasing |-> trueCaseFsPath.trueCase])
  ELSE Success(None)

\* validateFsPath
validateFsPath(from, relative) == ValidateTrueCase(relative, getFileTrueCase(from, relative))

\* readFileContent: one read and one analysis of the file
readFileContent(st, absolutePath) ==
  [st EXCEPT !.readCount =
     (absolutePath :> (IF absolutePath \in DOMAIN @ THEN @[absolutePath] + 1 ELSE 1)) @@ @]

\* The call validateFsPath(from, relative), noted in the running operation
PathValidated(st, from, relative) ==
  [st EXCEPT !.validated = @ \cup {PathJoin(<<from, relative>>)}]

NextFileId(st) == Cardinality(DOMAIN st.files) + 1

\* The file reads #buildResolvedFile does for a file of the package
ReadForBuild(st, fsPath, npmPackage) ==
  IF npmPackage = ProjectId
  THEN readFileContent(st, fsPath)
  ELSE readFileContent(readFileContent(st, fsPath), fsPath)

\* #buildResolvedFile: [st, file]
buildResolvedFile(st, sourceName, fsPath, npmPackage) ==
  [ st |-> ReadForBuild(st, fsPath, npmPackage),
    file |-> [ id |-> NextFileId(st),
               type |-> IF npmPackage = ProjectId THEN "PROJECT_FILE" ELSE "NPM_PACKAGE_FILE",
               sourceName |-> sourceName,
               fsPath |-> fsPath,
               package |-> npmPackage ] ]

\* new ProjectResolvedFileImplementation(...) in resolveProjectFile: [st, file]
NewProjectResolvedFile(st, sourceName, fsPath) ==
  [ st |-> readFileContent(st, fsPath),
    file |-> [ id |-> NextFileId(st),
               type |-> "PROJECT_FILE",
               sourceName |-> sourceName,
               fsPath |-> fsPath,
               package |-> ProjectId ] ]

\* this.#resolvedFileBySourceName.set(sourceName, resolvedFile)
Intern(st, sourceName, resolvedFile) ==
  [st EXCEPT !.files = (sourceName :> resolvedFile) @@ @]

\* this.#resolvedFileBySourceName.get(sourceName)
Interned(st, sourceName) ==
  IF sourceName \in DOMAIN st.files THEN st.files[sourceName] ELSE None

\* this.#fakeRootFile
fakeRootFile(st) ==
  [ id |-> 0,
    type |-> "PROJECT_FILE",
    sourceName |-> sourceNamePathJoin(<<hardhatProjectPackage(st.map).rootSourceName,
                                        <<"<","r","o","o","t",">">> \o DotSol>>),
    fsPath |-> PathJoin(<<fs.projectRoot, <<"<","r","o","o","t",">">> \o DotSol>>),
    package |-> ProjectId ]

\* The test resolveProjectFile makes first
InProject(projectRoot, absoluteFilePath) == StartsWith(absoluteFilePath, projectRoot)

\* The source name of a project file, from its path relative to the root
ProjectSourceName(st, relativeFilePath) ==
  sourceNamePathJoin(<<hardhatProjectPackage(st.map).rootSourceName,
                       fsPathToSourceNamePath(relativeFilePath)>>)

\* Lines 275-280: the new file is stored and returned
InternProjectFile(built) ==
  [st |-> Intern(built.st, built.file.sourceName, built.file), result |-> Success(built.file)]

\* Lines 228-280 of resolveProjectFile
ResolveProjectFileCased(st, absoluteFilePath, realCaseingRelativePath, sourceName) ==
  IF StartsWith(sourceName, sourceNamePathJoin(<<hardhatProjectPackage(st.map).rootSourceName,
                                                 S_node_modules_slash>>))
  THEN [st |-> st, result |-> Failure([type |-> "PROJECT_ROOT_FILE_IN_NODE_MODULES",
                                       absoluteFilePath |-> absoluteFilePath])]
  ELSE IF Interned(st, sourceName) # None
  THEN [st |-> st, result |-> Success(Interned(st, sourceName))]
  ELSE InternProjectFile(NewProjectResolvedFile(st, sourceName,
                           PathJoin(<<fs.projectRoot, realCaseingRelativePath>>)))

\* Variant of ResolveProjectFileValidated that keeps the caller's casing when
\* the path validation reports a casing error
ResolveProjectFileUncased(st, absoluteFilePath, relativeFilePath, sourceName, pathValidation) ==
  IF pathValidation.kind = "failure" /\ pathValidation.error.type = "DOESNT_EXIST"
  THEN [st |-> st, result |-> Failure([type |-> "PROJECT_ROOT_FILE_DOESNT_EXIST",
                                       absoluteFilePath |-> absoluteFilePath])]
  ELSE ResolveProjectFileCased(st, absoluteFilePath, relativeFilePath, sourceName)

\* Lines 206-226 of resolveProjectFile
ResolveProjectFileValidated(st, absoluteFilePath, relativeFilePath, sourceName, pathValidation) ==
  IF pathValidation.kind = "success"
  THEN ResolveProjectFileCased(st, absoluteFilePath, relativeFilePath, sourceName)
  ELSE IF pathValidation.error.type = "DOESNT_EXIST"
  THEN [st |-> st, result |-> Failure([type |-> "PROJECT_ROOT_FILE_DOESNT_EXIST",
                                       absoluteFilePath |-> absoluteFilePath])]
  ELSE ResolveProjectFileCased(st, absoluteFilePath, pathValidation.error.correctCasing,
                               ProjectSourceName(st, pathValidation.error.correctCasing))

\* Lines 187-204 of resolveProjectFile
ResolveProjectFileNamed(st, absoluteFilePath, relativeFilePath, sourceName) ==
  IF Interned(st, sourceName) # None
  THEN [st |-> st, result |-> Success(Interned(st, sourceName))]
  ELSE ResolveProjectFileValidated(PathValidated(st, fs.projectRoot, relativeFilePath),
                                   absoluteFilePath, relativeFilePath, sourceName,
                                   validateFsPath(fs.projectRoot, relativeFilePath))

\* Lines 166-185 of resolveProjectFile
ResolveProjectFileRelative(st, absoluteFilePath, relativeFilePath) ==
  ResolveProjectFileNamed(st, absoluteFilePath, relativeFilePath,
                          ProjectSourceName(st, relativeFilePath))

\* resolveProjectFile: [st, result]
ResolveProjectFile(st, absoluteFilePath) ==
  IF ~InProject(fs.projectRoot, absoluteFilePath)
  THEN [st |-> st, result |-> Failure([type |-> "PROJECT_ROOT_FILE_NOT_IN_PROJECT",
                                       absoluteFilePath |-> absoluteFilePath])]
  ELSE ResolveProjectFileRelative(st, absoluteFilePath,
                                  PathRelative(fs.projectRoot, absoluteFilePath))

\* Whether the remapping applies and beats the best one found so far
IsBetterRemapping(fromSourceName, directImport, remapping, best) ==
  /\ StartsWith(fromSourceName, remapping.context)
  /\ StartsWith(directImport, remapping.prefix)
  /\ \/ best = None
     \/ Len(remapping.context) > Len(best.context)
     \/ /\ Len(remapping.context) = Len(best.context)
        /\ Len(remapping.prefix) >= Len(best.prefix)

RECURSIVE SelectBest(_, _, _, _)
\* selectBestRemapping: among the remappings whose context is a prefix of
\* the source name and whose prefix is a prefix of the direct import, the
\* longest context wins, then the longest prefix, then the latest one.
SelectBest(fromSourceName, directImport, remappings, best) ==
  IF remappings = <<>> THEN best
  ELSE SelectBest(fromSourceName, directImport, Tail(remappings),
                  IF IsBetterRemapping(fromSourceName, directImport, remappings[1], best)
                  THEN remappings[1] ELSE best)

selectBestRemapping(fromSourceName, directImport, remappings) ==
  SelectBest(fromSourceName, directImport, remappings, None)

\* applyValidRemapping: the prefix replaced by the target
applyValidRemapping(directImport, remapping) ==
  remapping.target \o Drop(directImport, Len(remapping.prefix))

\* #getRelativeSourceNamePath
getRelativeSourceNamePath(st, nmpPackage, fileSourceName) ==
  IF nmpPackage = ProjectId THEN fileSourceName
  ELSE Drop(fileSourceName, Len(st.map.packages[nmpPackage].rootSourceName) + 1)

\* #buildResolvedFileReference
buildResolvedFileReference(targetNpmPackage, subpath, userRemapping, packageExportsResolvedSubpath) ==
  [ npmPackage |-> IF targetNpmPackage # ProjectId THEN [id |-> targetNpmPackage] ELSE None,
    userRemapping |-> userRemapping,
    subpath |-> subpath,
    packageExportsResolvedSubpath |-> packageExportsResolvedSubpath ]

ImportError(type, from, importPath, fields) ==
  [type |-> type, fromFsPath |-> from.fsPath, importPath |-> importPath] @@ fields

\* The package whose remappings and dependencies apply to imports of `from`
FromNpmPackage(from) == IF from.type = "NPM_PACKAGE_FILE" THEN from.package ELSE ProjectId

\* this.#resolvedFileBySourceName.set(sourceName, resolvedFile) and the
\* success the import resolutions return
InternImportedFile(built, remapping) ==
  [ st |-> Intern(built.st, built.file.sourceName, built.file),
    result |-> Success([file |-> built.file, remapping |-> remapping]) ]

\* Variant of ResolveValidatedImport that interns the file before it looks
\* at the outcome of the path validation
ResolveValidatedImportInternedFirst(st, from, importPath, sourceName, npmPackage, relativeFsPath, remapping, reference, pathValidation) ==
  LET built == buildResolvedFile(st, sourceName,
                 PathJoin(<<st.map.packages[npmPackage].rootFsPath, relativeFsPath>>), npmPackage)
  IN IF pathValidation.kind = "failure"
     THEN [st |-> Intern(built.st, sourceName, built.file),
           result |-> Failure(ImportError(IF pathValidation.error.type = "DOESNT_EXIST"
                                          THEN "IMPORT_DOESNT_EXIST" ELSE "IMPORT_INVALID_CASING",
                                          from, importPath, reference))]
     ELSE InternImportedFile(built, remapping)

\* Lines 631-674 of #resolveUserRemappedImport and 811-862 of
\* #resolveImportThroughNpm: the outcome of the path validation
ResolveValidatedImport(st, from, importPath, sourceName, npmPackage, relativeFsPath, remapping, reference, pathValidation) ==
  IF pathValidation.kind = "failure"
  THEN IF pathValidation.error.type = "DOESNT_EXIST"
       THEN [st |-> st,
             result |-> Failure(ImportError("IMPORT_DOESNT_EXIST", from, importPath, reference))]
       ELSE [st |-> st,
             result |-> Failure(ImportError("IMPORT_INVALID_CASING", from, importPath,
                          reference @@ [correctCasing |-> pathValidation.error.correctCasing]))]
  ELSE InternImportedFile(
         buildResolvedFile(st, sourceName,
                           PathJoin(<<st.map.packages[npmPackage].rootFsPath, relativeFsPath>>),
                           npmPackage),
         remapping)

\* Variant of ResolveUserRemappedImportInto whose success does not carry the
\* user remapping
ResolveUserRemappedImportIntoUnnamed(st, from, importPath, remapping, sourceName, targetNpmPackage, relativeSourceNamePath) ==
  ResolveValidatedImport(
    PathValidated(st, st.map.packages[targetNpmPackage].rootFsPath,
                  sourceNamePathToFsPath(relativeSourceNamePath)),
    from, importPath, sourceName, targetNpmPackage,
    sourceNamePathToFsPath(relativeSourceNamePath), None,
    buildResolvedFileReference(targetNpmPackage, relativeSourceNamePath,
                               [remapping |-> remapping], None),
    validateFsPath(st.map.packages[targetNpmPackage].rootFsPath,
                   sourceNamePathToFsPath(relativeSourceNamePath)))

\* Lines 605-629 of #resolveUserRemappedImport
ResolveUserRemappedImportInto(st, from, importPath, remapping, sourceName, targetNpmPackage, relativeSourceNamePath) ==
  ResolveValidatedImport(
    PathValidated(st, st.map.packages[targetNpmPackage].rootFsPath,
                  sourceNamePathToFsPath(relativeSourceNamePath)),
    from, importPath, sourceName, targetNpmPackage,
    sourceNamePathToFsPath(relativeSourceNamePath), remapping,
    buildResolvedFileReference(targetNpmPackage, relativeSourceNamePath,
                               [remapping |-> remapping], None),
    validateFsPath(st.map.packages[targetNpmPackage].rootFsPath,
                   sourceNamePathToFsPath(relativeSourceNamePath)))

\* remapping.targetNpmPackage?.package ?? fromNpmPackage
TargetNpmPackage(from, remapping) ==
  IF remapping.targetNpmPackage # None THEN remapping.targetNpmPackage.package
  ELSE FromNpmPackage(from)

\* Lines 599-603 of #resolveUserRemappedImport
ResolveUserRemappedImportAs(st, from, importPath, remapping, sourceName) ==
  IF Interned(st, sourceName) # None
  THEN [st |-> st,
        result |-> Success([file |-> Interned(st, sourceName), remapping |-> remapping])]
  ELSE ResolveUserRemappedImportInto(st, from, importPath, remapping, sourceName,
         TargetNpmPackage(from, remapping),
         getRelativeSourceNamePath(st, TargetNpmPackage(from, remapping), sourceName))

\* #resolveUserRemappedImport: [st, result]
ResolveUserRemappedImport(st, from, importPath, directImport, remapping) ==
  ResolveUserRemappedImportAs(st, from, importPath, remapping,
                              applyValidRemapping(directImport, remapping))

\* Lines 1097-1117: the outcome of resolve.exports
SubpathOfResolveOutput(resolveOutput) ==
  IF resolveOutput = None THEN Failure(None)
  ELSE Success([subpath |-> ReplaceChar(Drop(resolveOutput.output, 2), "/", PathSep)])

\* Variant of resolveSubpathWithPackageExports that accepts every subpath as
\* it is
resolveSubpathAsRequested(npmPackage, subpath) == Success([subpath |-> subpath])

\* resolveSubpathWithPackageExports: Success(subpath) or Failure(None)
resolveSubpathWithPackageExports(npmPackage, subpath) ==
  SubpathOfResolveOutput(ResolveExports(npmPackage.exports, subpath))

\* What #resolveImportThroughNpm does with the remapping errors of the
\* dependency resolution: the errors to report, or None.
RemappingErrorsToReport(dependencyResolution) == dependencyResolution.remappingErrros

\* The remapping #resolveImportThroughNpm returns (lines 784-792)
NpmImportRemapping(st, from, directImport, dependencyResolution, subpath, resolvedSubpath, sourceName) ==
  IF \/ (resolvedSubpath # None /\ resolvedSubpath.subpath # subpath)
     \/ directImport = <<"h","a","r","d","h","a","t","/","c","o","n","s","o","l","e">> \o DotSol
  THEN generateRemappingIntoNpmFile(st.map, FromNpmPackage(from), directImport, sourceName)
  ELSE dependencyResolution.generatedRemapping

\* Variant of ResolveNpmImportNamed that does not look the source name up
\* in #resolvedFileBySourceName
ResolveNpmImportNamedUncached(st, from, importPath, dependency, subpath, resolvedSubpath, relativePath, sourceName, remapping) ==
  ResolveValidatedImport(
    PathValidated(st, st.map.packages[dependency].rootFsPath, relativePath),
    from, importPath, sourceName, dependency, relativePath, remapping,
    buildResolvedFileReference(dependency, subpath, None, resolvedSubpath),
    validateFsPath(st.map.packages[dependency].rootFsPath, relativePath))

\* Lines 784-862 of #resolveImportThroughNpm
ResolveNpmImportNamed(st, from, importPath, dependency, subpath, resolvedSubpath, relativePath, sourceName, remapping) ==
  IF Interned(st, sourceName) # None
  THEN [st |-> st,
        result |-> Success([file |-> Interned(st, sourceName), remapping |-> remapping])]
  ELSE ResolveValidatedImport(
         PathValidated(st, st.map.packages[dependency].rootFsPath, relativePath),
         from, importPath, sourceName, dependency, relativePath, remapping,
         buildResolvedFileReference(dependency, subpath, None, resolvedSubpath),
         validateFsPath(st.map.packages[dependency].rootFsPath, relativePath))

\* Lines 766-769 of #resolveImportThroughNpm
ResolveNpmImportSubpath(st, from, importPath, directImport, dependencyResolution, subpath, resolvedSubpath, relativePath, sourceName) ==
  ResolveNpmImportNamed(st, from, importPath, dependencyResolution.package, subpath,
    resolvedSubpath, relativePath, sourceName,
    NpmImportRemapping(st, from, directImport, dependencyResolution, subpath, resolvedSubpath,
                       sourceName))

\* Lines 751-764 of #resolveImportThroughNpm
ResolveNpmImportExported(st, from, importPath, directImport, dependencyResolution, subpath, pathResolutionResult) ==
  IF pathResolutionResult.kind = "failure"
  THEN [st |-> st,
        result |-> Failure(ImportError("IMPORT_OF_NON_EXPORTED_NPM_FILE", from, importPath,
                     buildResolvedFileReference(dependencyResolution.package, subpath, None, None)))]
  ELSE ResolveNpmImportSubpath(st, from, importPath, directImport, dependencyResolution, subpath,
         pathResolutionResult.value,
         IF pathResolutionResult.value # None THEN pathResolutionResult.value.subpath ELSE subpath,
         sourceNamePathJoin(<<st.map.packages[dependencyResolution.package].rootSourceName,
                              IF pathResolutionResult.value # None
                              THEN pathResolutionResult.value.subpath ELSE subpath>>))

\* Lines 714-749 of #resolveImportThroughNpm; st already holds the map as the
\* dependency resolution left it
ResolveNpmImportOfDependency(st, from, importPath, directImport, parsedDirectImport, dependencyResolution) ==
  IF dependencyResolution = None
  THEN [st |-> st,
        result |-> Failure(ImportError("IMPORT_OF_UNINSTALLED_PACKAGE", from, importPath,
                     [installationName |-> parsedDirectImport.package]))]
  ELSE IF RemappingErrorsToReport(dependencyResolution) # None
  THEN [st |-> st,
        result |-> Failure(ImportError("IMPORT_OF_NPM_PACKAGE_WITH_REMAPPING_ERRORS",
                     from, importPath,
                     [ npmPackage |-> [id |-> dependencyResolution.package],
                       remappingErrors |-> dependencyResolution.remappingErrros.errors ]))]
  ELSE ResolveNpmImportExported(st, from, importPath, directImport, dependencyResolution,
         parsedDirectImport.subpath,
         IF st.map.packages[dependencyResolution.package].exports # None
         THEN resolveSubpathWithPackageExports(st.map.packages[dependencyResolution.package],
                                               parsedDirectImport.subpath)
         ELSE Success(None))

\* The call of the map made by #resolveImportThroughNpm (lines 708-712)
ResolveNpmImportThroughMap(st, from, importPath, directImport, parsedDirectImport, resolution) ==
  ResolveNpmImportOfDependency([st EXCEPT !.map = resolution.m], from, importPath, directImport,
                               parsedDirectImport, resolution.result)

\* Lines 690-706 of #resolveImportThroughNpm
ResolveParsedNpmImport(st, from, importPath, directImport, parsedDirectImport) ==
  IF parsedDirectImport = None
  THEN [st |-> st,
        result |-> Failure(ImportError("IMPORT_WITH_INVALID_NPM_SYNTAX", from, importPath, <<>>))]
  ELSE ResolveNpmImportThroughMap(st, from, importPath, directImport, parsedDirectImport,
         ResolveDependencyByInstallationName(st.map, FromNpmPackage(from),
                                             parsedDirectImport.package))

\* #resolveImportThroughNpm: [st, result]
ResolveImportThroughNpm(st, from, importPath, directImport) ==
  ResolveParsedNpmImport(st, from, importPath, directImport, parseNpmDirectImport(directImport))

RECURSIVE DirectLocalImportFound(_, _, _)
\* The loop of #tryToGenerateDirectLocalImportError: whether some directory
\* from baseDir upwards, while inside the package root, holds importPath.
DirectLocalImportFound(baseDir, rootFsPath, importPath) ==
  IF ~StartsWith(baseDir, rootFsPath) THEN FALSE
  ELSE IF exists(PathJoin(<<baseDir, importPath>>)) THEN TRUE
  ELSE IF PathDirname(baseDir) = baseDir THEN FALSE
  ELSE DirectLocalImportFound(PathDirname(baseDir), rootFsPath, importPath)

\* #resolveRelativeImport: `return 1 as any`
resolveRelativeImport(from, importPath, directImport) == [kind |-> "placeholder", value |-> 1]

IsRelativeImport(importPath) ==
  StartsWith(importPath, <<".","/">>) \/ StartsWith(importPath, <<".",".","/">>)

\* The test #resolveImport makes of a relative import's direct form
StaysInPackage(directImport, rootSourceName) == StartsWith(directImport, rootSourceName)

\* Lines 536-566 of #resolveImport: the outcome of the npm resolution
ImproveNpmResolutionError(st, from, importPath, npmResolutionResult) ==
  IF npmResolutionResult.result.kind = "success"
  THEN npmResolutionResult
  ELSE IF /\ npmResolutionResult.result.error.type \in
               {"IMPORT_OF_UNINSTALLED_PACKAGE", "IMPORT_WITH_INVALID_NPM_SYNTAX"}
          /\ DirectLocalImportFound(PathDirname(from.fsPath),
                                    st.map.packages[from.package].rootFsPath, importPath)
  THEN [st |-> npmResolutionResult.st, result |-> Thrown("Invalid direct import")]
  ELSE npmResolutionResult

\* Variant of ResolveImportRemapped that resolves a relative import through
\* the user remapping that matches its direct form
ResolveImportRemappedAlsoRelative(st, from, importPath, directImport, bestUserRemapping) ==
  IF bestUserRemapping # None
  THEN ResolveUserRemappedImport(st, from, importPath, directImport, bestUserRemapping)
  ELSE IF IsRelativeImport(importPath)
  THEN [st |-> st, result |-> resolveRelativeImport(from, importPath, directImport)]
  ELSE ImproveNpmResolutionError(st, from, importPath,
                                 ResolveImportThroughNpm(st, from, importPath, directImport))

\* Lines 505-534 of #resolveImport: the best user remapping was selected
ResolveImportRemapped(st, from, importPath, directImport, bestUserRemapping) ==
  IF IsRelativeImport(importPath)
  THEN IF bestUserRemapping # None
       THEN [st |-> st, result |-> Thrown("Invalid relative import and remapping")]
       ELSE [st |-> st, result |-> resolveRelativeImport(from, importPath, directImport)]
  ELSE IF bestUserRemapping # None
  THEN ResolveUserRemappedImport(st, from, importPath, directImport, bestUserRemapping)
  ELSE ImproveNpmResolutionError(st, from, importPath,
                                 ResolveImportThroughNpm(st, from, importPath, directImport))

\* Variant of ResolveDirectImport that passes the direct import where the
\* source name of `from` belongs, and the source name as the direct import
ResolveDirectImportSwapped(st, from, importPath, directImport) ==
  IF /\ IsRelativeImport(importPath)
     /\ ~StaysInPackage(directImport, st.map.packages[from.package].rootSourceName)
  THEN [st |-> st,
        result |-> Failure(ImportError("ILLEGAL_RELATIVE_IMPORT", from, importPath, <<>>))]
  ELSE IF "assertion" \in DOMAIN getUserRemappings(st.map, from.package)
  THEN [st |-> st, result |-> Thrown(getUserRemappings(st.map, from.package).assertion)]
  ELSE ResolveImportRemapped(st, from, importPath, directImport,
         selectBestRemapping(directImport, from.sourceName,
                             getUserRemappings(st.map, from.package).list))

\* Lines 479-503 of #resolveImport
ResolveDirectImport(st, from, importPath, directImport) ==
  IF /\ IsRelativeImport(importPath)
     /\ ~StaysInPackage(directImport, st.map.packages[from.package].rootSourceName)
  THEN [st |-> st,
        result |-> Failure(ImportError("ILLEGAL_RELATIVE_IMPORT", from, importPath, <<>>))]
  ELSE IF "assertion" \in DOMAIN getUserRemappings(st.map, from.package)
  THEN [st |-> st, result |-> Thrown(getUserRemappings(st.map, from.package).assertion)]
  ELSE ResolveImportRemapped(st, from, importPath, directImport,
         selectBestRemapping(from.sourceName, directImport,
                             getUserRemappings(st.map, from.package).list))

\* #resolveImport: [st, result]
ResolveImportInternal(st, from, importPath) ==
  IF Includes(importPath, <<"\\">>)
  THEN [st |-> st,
        result |-> Failure(ImportError("IMPORT_WITH_WINDOWS_PATH_SEPARATORS", from, importPath, <<>>))]
  ELSE ResolveDirectImport(st, from, importPath,
         IF IsRelativeImport(importPath)
         THEN sourceNamePathJoin(<<PathDirname(from.sourceName), importPath>>)
         ELSE importPath)

\* isResolvedUserRemapping
isResolvedUserRemapping(remapping) == "source" \in DOMAIN remapping

RootError(type, npmModule, fields) == [type |-> type, npmModule |-> npmModule] @@ fields

\* The switch of resolveNpmDependencyFileAsRoot over the import error types
NpmRootFailure(error, npmModule, parsedNpmModule) ==
  CASE error.type \in {"IMPORT_WITH_INVALID_NPM_SYNTAX", "IMPORT_WITH_WINDOWS_PATH_SEPARATORS"} ->
         Failure(RootError("NPM_ROOT_FILE_NAME_WITH_INVALID_FORMAT", npmModule, <<>>))
    [] error.type = "ILLEGAL_RELATIVE_IMPORT" ->
         Thrown("This could not happen, as we validated that the module name is a valid npm module")
    [] error.type = "IMPORT_DOESNT_EXIST" ->
         IF error.npmPackage = None
         THEN Thrown("We should have a npm package if the import doesn't exist, as we know are doing an npm import")
         ELSE Failure(RootError("NPM_ROOT_FILE_DOESNT_EXIST_WITHIN_ITS_PACKAGE", npmModule, error))
    [] error.type = "IMPORT_INVALID_CASING" ->
         IF error.npmPackage = None
         THEN Thrown("We should have a npm package if the import doesn't exist, as we know are doing an npm import")
         ELSE Failure(RootError("NPM_ROOT_FILE_WITH_INCORRRECT_CASING", npmModule, error))
    [] error.type = "IMPORT_OF_UNINSTALLED_PACKAGE" ->
         Failure(RootError("NPM_ROOT_FILE_OF_UNINSTALLED_PACKAGE", npmModule, error))
    [] error.type = "IMPORT_OF_NPM_PACKAGE_WITH_REMAPPING_ERRORS" ->
         Failure(RootError("NPM_ROOT_FILE_OF_PACKAGE_WITH_REMAPPING_ERRORS", npmModule,
                           [installationName |-> parsedNpmModule.package] @@ error))
    [] error.type = "IMPORT_OF_NON_EXPORTED_NPM_FILE" ->
         Failure(RootError("NPM_ROOT_FILE_NON_EXPORTED_FILE", npmModule, error))

\* resolveNpmDependencyFileAsRoot after a successful import resolution
NpmRootSuccess(value, npmModule) ==
  LET resolvedFile == value.file
      remapping == IF isResolvedUserRemapping(value.remapping) THEN value.remapping ELSE None
  IN IF resolvedFile.type # "NPM_PACKAGE_FILE"
     THEN IF remapping = None
          THEN Thrown("Expected user remapping to be present if the import resolved to a local file")
          ELSE Failure(RootError("NPM_ROOT_FILE_RESOLVES_TO_PROJECT_FILE", npmModule,
                                 [userRemapping |-> remapping]))
     ELSE Success([file |-> resolvedFile, remapping |-> remapping])

\* resolveNpmDependencyFileAsRoot: the result of the import resolution mapped
\* to the result of the root resolution
NpmRootResult(r, npmModule, parsedNpmModule) ==
  [ st |-> r.st,
    result |->
      CASE r.result.kind = "failure" -> NpmRootFailure(r.result.error, npmModule, parsedNpmModule)
        [] r.result.kind = "success" -> NpmRootSuccess(r.result.value, npmModule)
        [] r.result.kind = "thrown" -> r.result
        [] r.result.kind = "placeholder" -> Thrown("TypeError") ]

\* Lines 291-310: the module name is parsed, then resolved as an import of
\* the fake root file
ResolveParsedNpmModule(st, npmModule, parsedNpmModule) ==
  IF parsedNpmModule = None
  THEN [st |-> st,
        result |-> Failure(RootError("NPM_ROOT_FILE_NAME_WITH_INVALID_FORMAT", npmModule, <<>>))]
  ELSE NpmRootResult(ResolveImportInternal(st, fakeRootFile(st), npmModule), npmModule,
                     parsedNpmModule)

\* resolveNpmDependencyFileAsRoot: [st, result]
ResolveNpmDependencyFileAsRoot(st, npmModule) ==
  ResolveParsedNpmModule(st, npmModule, parseNpmDirectImport(npmModule))

(***************************************************************************)
(* Inputs                                                                  *)
(***************************************************************************)
ProjectFileInputs ==
  { RootP \o <<"/","A">> \o DotSol,
    RootP \o <<"/","l","i","b","/","L">> \o DotSol,
    RootP \o <<"/","a">> \o DotSol,
    RootP \o <<"x","/","B">> \o DotSol,
    RootP \o <<"/","l","i","b","/">> \o S_node_modules \o <<"/","q","/","Q">> \o DotSol,
    DirA \o <<"/","A">> \o DotSol }

ImportInputs ==
  { <<"a","/","A">> \o DotSol,
    <<"b","/","A">> \o DotSol,
    <<"c","/","C">> \o DotSol,
    <<"s","/","A">> \o DotSol,
    <<"m","/","M">> \o DotSol,
    <<"z","/","Z">> \o DotSol,
    <<"x","/","A">> \o DotSol,
    <<"f","/","X">> \o DotSol,
    <<"f","/","g","/","X">> \o DotSol,
    <<"g","/","X">> \o DotSol,
    <<".","/","g","/","X">> \o DotSol,
    <<".",".","/">> \o HARDHAT_PROJECT_ROOT_SOURCE_NAME \o <<"x","/","B">> \o DotSol,
    <<".",".","/","x","/","B">> \o DotSol,
    <<"r","/","c","/","R">> \o DotSol,
    <<"r","/","R">> \o DotSol }

NpmRootInputs ==
  { <<"a","/","A">> \o DotSol,
    <<"c","/","C">> \o DotSol,
    <<"f","/","X">> \o DotSol,
    <<"s","/","A">> \o DotSol,
    <<".",".","/","a","/","A">> \o DotSol,
    <<"r","/","c","/","R">> \o DotSol,
    <<"a">> }

InstallationNameInputs == { <<"a">>, <<"b">>, <<"c">>, <<"s">>, <<"m">>, <<"o">>, <<"z">> }

\* Public calls made on one resolver after its creation
MaxCalls == 3

\* The callers that use one resolver at the same time
MaxCallers == 2

Callers == 1..MaxCallers

(***************************************************************************)
(* The state machine.  The resolver runs every public operation under its  *)
(* mutex, so each is one step.                                             *)
(***************************************************************************)
ResolverState ==
  [map |-> map, files |-> resolvedFileBySourceName, readCount |-> readCount, validated |-> {}]

SetResolverState(st) ==
  /\ map' = st.map
  /\ resolvedFileBySourceName' = st.files
  /\ readCount' = st.readCount

\* The save() and load() calls made on one LazyCoverageManager
MaxCoverageCalls == 3

CoverageCalls == 1..MaxCoverageCalls

\* constructor of LazyCoverageManager; no call has been made
LazyCoverageManagerConstructed ==
  /\ coverageManager = None
  /\ constructed = <<>>
  /\ coverageCalls = [c \in CoverageCalls |-> [pc |-> "idle"]]

Init ==
  /\ fs \in Worlds
  /\ phase = "new"
  /\ map = EmptyMap
  /\ createResult = None
  /\ resolvedFileBySourceName = <<>>
  /\ ret = [op |-> "none"]
  /\ readCount = <<>>
  /\ firstRemappings = <<>>
  /\ calls = 0
  /\ acquired = FALSE
  /\ callers = [c \in Callers |-> [pc |-> "idle"]]
  /\ created = <<>>
  /\ loop = [pc |-> "idle"]
  /\ loopErrors = <<>>
  /\ LazyCoverageManagerConstructed

\* NewResolverImplementation.create / RemappedNpmPackagesMap.create
Create ==
  /\ phase = "new"
  /\ \E drained \in {ResolveAnyRemainingRemappings(ConstructMap(fs.projectRoot))} :
       \E result \in {CreateResultOf(drained.errors)} :
         /\ map' = drained.m
         /\ createResult' = result
         /\ phase' = IF result.success THEN "created" ELSE "failed"
         /\ ret' = [op |-> "create", result |-> result]
  /\ UNCHANGED <<coverageVars, loop, loopErrors, fs, resolvedFileBySourceName, readCount, firstRemappings, calls,
               acquired, callers, created>>

\* resolver.resolveProjectFile(absoluteFilePath)
ResolveProjectFileCall ==
  /\ phase = "created"
  /\ calls < MaxCalls
  /\ calls' = calls + 1
  /\ \E absoluteFilePath \in ProjectFileInputs :
       \E r \in {ResolveProjectFile(ResolverState, absoluteFilePath)} :
          /\ SetResolverState(r.st)
          /\ ret' = [op |-> "resolveProjectFile", absoluteFilePath |-> absoluteFilePath,
                     result |-> r.result, validated |-> r.st.validated]
  /\ UNCHANGED <<coverageVars, loop, loopErrors, fs, phase, createResult, firstRemappings,
               acquired, callers, created>>

\* resolver.resolveNpmDependencyFileAsRoot(npmModule)
ResolveNpmDependencyFileAsRootCall ==
  /\ phase = "created"
  /\ calls < MaxCalls
  /\ calls' = calls + 1
  /\ \E npmModule \in NpmRootInputs :
       \E r \in {ResolveNpmDependencyFileAsRoot(ResolverState, npmModule)} :
          /\ SetResolverState(r.st)
          /\ ret' = [op |-> "resolveNpmDependencyFileAsRoot", npmModule |-> npmModule,
                     result |-> r.result, validated |-> r.st.validated]
  /\ UNCHANGED <<coverageVars, loop, loopErrors, fs, phase, createResult, firstRemappings,
               acquired, callers, created>>

\* The resolved files a caller holds: the results of earlier resolutions
ResolvedFiles == { resolvedFileBySourceName[sn] : sn \in DOMAIN resolvedFileBySourceName }

\* resolver.resolveImport(from, importPath)
ResolveImportCall ==
  /\ phase = "created"
  /\ calls < MaxCalls
  /\ calls' = calls + 1
  /\ \E from \in ResolvedFiles, importPath \in ImportInputs :
       \E r \in {ResolveImportInternal(ResolverState, from, importPath)} :
          /\ SetResolverState(r.st)
          /\ ret' = [op |-> "resolveImport", from |-> from, importPath |-> importPath,
                     result |-> r.result, validated |-> r.st.validated]
  /\ UNCHANGED <<coverageVars, loop, loopErrors, fs, phase, createResult, firstRemappings,
               acquired, callers, created>>

\* map.resolveDependencyByInstallationName(from, installationName)
ResolveDependencyByInstallationNameCall ==
  /\ phase = "created"
  /\ calls < MaxCalls
  /\ calls' = calls + 1
  /\ \E from \in DOMAIN map.packages, installationName \in InstallationNameInputs :
       \E r \in {ResolveDependencyByInstallationName(map, from, installationName)} :
          /\ map' = r.m
          /\ ret' = [op |-> "resolveDependencyByInstallationName", from |-> from,
                     installationName |-> installationName, result |-> r.result,
                     before |-> ExistingDependencyByInstallationName(map, from, installationName)]
  /\ UNCHANGED <<coverageVars, loop, loopErrors, fs, phase, createResult, resolvedFileBySourceName, readCount, firstRemappings,
               acquired, callers, created>>

\* map.getUserRemappings(npmPackage)
GetUserRemappingsCall ==
  /\ phase = "created"
  /\ calls < MaxCalls
  /\ calls' = calls + 1
  /\ \E npmPackage \in DOMAIN map.packages :
       \E r \in {getUserRemappings(map, npmPackage)} :
          /\ ret' = [op |-> "getUserRemappings", npmPackage |-> npmPackage, result |-> r,
                     repeated |-> npmPackage \in DOMAIN firstRemappings]
          /\ firstRemappings' =
               IF npmPackage \in DOMAIN firstRemappings \/ "list" \notin DOMAIN r
               THEN firstRemappings
               ELSE (npmPackage :> r.list) @@ firstRemappings
  /\ UNCHANGED <<coverageVars, loop, loopErrors, fs, phase, map, createResult, resolvedFileBySourceName, readCount,
               acquired, callers, created>>

Next ==
  \/ Create
  \/ ResolveProjectFileCall
  \/ ResolveNpmDependencyFileAsRootCall
  \/ ResolveImportCall
  \/ ResolveDependencyByInstallationNameCall
  \/ GetUserRemappingsCall

Spec == Init /\ [][Next]_vars

(***************************************************************************)
(* The loop of the work queue, one round at a time.  create and            *)
(* resolveDependencyByInstallationName await #resolveAnyRemainingRemappings, *)
(* whose rounds await the file system.                                     *)
(***************************************************************************)
\* create up to its call of #resolveAnyRemainingRemappings
BeginCreate ==
  /\ phase = "new"
  /\ loop.pc = "idle"
  /\ map' = ConstructMap(fs.projectRoot)
  /\ phase' = "creating"
  /\ loop' = [pc |-> "running", rounds |-> 0, awaitedBy |-> [op |-> "create"]]
  /\ UNCHANGED <<coverageVars, loopErrors, fs, createResult, resolvedFileBySourceName, ret, readCount, firstRemappings,
                 calls, acquired, callers, created>>

\* What resolveDependencyByInstallationName does with the outcome of
\* #resolveDependencyByInstallationName: it returns undefined or starts the
\* loop
AfterDependency(request, dependency) ==
  /\ map' = dependency.m
  /\ IF dependency.result = None
     THEN /\ ret' = request @@ [result |-> None]
          /\ loop' = loop
     ELSE /\ ret' = ret
          /\ loop' = [pc |-> "running", rounds |-> 0,
                      awaitedBy |-> request @@ [edge |-> dependency.result]]

\* map.resolveDependencyByInstallationName(from, installationName) up to its
\* call of #resolveAnyRemainingRemappings
BeginResolveDependency ==
  /\ phase = "created"
  /\ loop.pc = "idle"
  /\ calls < MaxCalls
  /\ calls' = calls + 1
  /\ \E from \in DOMAIN map.packages, installationName \in InstallationNameInputs :
       \E dependency \in {ResolveDependencyInternal(map, from, installationName)} :
         AfterDependency([op |-> "resolveDependencyByInstallationName", from |-> from,
                          installationName |-> installationName,
                          before |-> ExistingDependencyByInstallationName(map, from,
                                                                          installationName)],
                         dependency)
  /\ UNCHANGED <<coverageVars, loopErrors, fs, phase, createResult, resolvedFileBySourceName, readCount,
                 firstRemappings, acquired, callers, created>>

\* One round of the loop of #resolveAnyRemainingRemappings: the package at
\* the head of the queue is processed and shifted
LoopRound ==
  /\ loop.pc = "running"
  /\ QueueNotEmpty(map)
  /\ \E round \in {AfterPackage(ValidateAndResolveUserRemappingsOfAnExistingPackage(
                                   SetEmptyUserRemappings(map, NextToResolve(map)),
                                   NextToResolve(map)),
                                 loopErrors)} :
       /\ map' = round.m
       /\ loopErrors' = round.errors
  /\ loop' = [loop EXCEPT !.rounds = @ + 1]
  /\ UNCHANGED <<coverageVars, fs, phase, createResult, resolvedFileBySourceName, ret, readCount,
                 firstRemappings, calls, acquired, callers, created>>

\* What the method that awaited the loop returns
ReturnFromLoop(awaitedBy, drained) ==
  IF awaitedBy.op = "create"
  THEN /\ createResult' = CreateResultOf(drained.errors)
       /\ phase' = IF Len(drained.errors) > 0 THEN "failed" ELSE "created"
       /\ ret' = [op |-> "create", result |-> CreateResultOf(drained.errors)]
  ELSE /\ ret' = [op |-> awaitedBy.op, from |-> awaitedBy.from,
                  installationName |-> awaitedBy.installationName,
                  before |-> awaitedBy.before,
                  result |-> DependencyResolution(awaitedBy.edge, drained).result]
       /\ UNCHANGED <<phase, createResult>>

\* The queue is empty: #resolveAnyRemainingRemappings returns its errors and
\* the method that awaited it returns
LoopExit ==
  /\ loop.pc = "running"
  /\ ~QueueNotEmpty(map)
  /\ ReturnFromLoop(loop.awaitedBy, [m |-> map, errors |-> loopErrors])
  /\ loop' = [pc |-> "idle"]
  /\ loopErrors' = <<>>
  /\ UNCHANGED <<coverageVars, fs, map, resolvedFileBySourceName, readCount, firstRemappings, calls,
                 acquired, callers, created>>

\* The projects the loop is followed on
DrainWorlds == Worlds \cup {WorldCycles}

InitDrain ==
  /\ fs \in DrainWorlds
  /\ phase = "new"
  /\ map = EmptyMap
  /\ createResult = None
  /\ resolvedFileBySourceName = <<>>
  /\ ret = [op |-> "none"]
  /\ readCount = <<>>
  /\ firstRemappings = <<>>
  /\ calls = 0
  /\ acquired = FALSE
  /\ callers = [c \in Callers |-> [pc |-> "idle"]]
  /\ created = <<>>
  /\ loop = [pc |-> "idle"]
  /\ loopErrors = <<>>
  /\ LazyCoverageManagerConstructed

NextDrain ==
  \/ BeginCreate
  \/ BeginResolveDependency
  \/ LoopRound
  \/ LoopExit

\* The step of the loop variable in a round of the loop; a round can be made
\* exactly when the loop runs and the queue is not empty
RoundResumes ==
  /\ loop.pc = "running"
  /\ QueueNotEmpty(map)
  /\ loop' = [loop EXCEPT !.rounds = @ + 1]

\* A round of the loop and the return resume when the file system answers:
\* the awaited reads settle, so a loop that can go on does go on
SpecDrain == InitDrain /\ [][NextDrain]_vars /\ WF_loop(RoundResumes) /\ WF_vars(LoopExit)

(***************************************************************************)
(* Concurrent callers.  A public method of the resolver runs its body in   *)
(* #mutex.exclusiveRun: the call waits until the mutex is free, acquires   *)
(* it, runs the body, which suspends on the file system between what it    *)
(* reads from the resolver and what it writes to it, and releases the      *)
(* mutex when the body ends.                                               *)
(***************************************************************************)
\* What the callers ask for; an import is asked for from a file the caller
\* was given by an earlier call
ConcurrentRequests ==
  { [op |-> "resolveProjectFile", absoluteFilePath |-> RootP \o <<"/","A">> \o DotSol],
    [op |-> "resolveNpmDependencyFileAsRoot", npmModule |-> <<"a","/","A">> \o DotSol],
    [op |-> "resolveNpmDependencyFileAsRoot", npmModule |-> <<"d","/","D">> \o DotSol] }
  \cup { [op |-> "resolveImport", from |-> from, importPath |-> <<"a","/","A">> \o DotSol] :
           from \in ResolvedFiles }

\* The body of the public method the request names, run on the resolver
\* state st: [st, result]
RunRequest(st, request) ==
  CASE request.op = "resolveProjectFile" -> ResolveProjectFile(st, request.absoluteFilePath)
    [] request.op = "resolveNpmDependencyFileAsRoot" ->
         ResolveNpmDependencyFileAsRoot(st, request.npmModule)
    [] OTHER -> ResolveImportInternal(st, request.from, request.importPath)

\* The files and the packages that are in the state `after` and not in the
\* state `held`
CreatedBetween(held, after) ==
  { <<"file", sourceName>> : sourceName \in DOMAIN after.files \ DOMAIN held.files }
  \cup { <<"package", after.map.packages[npmPackage].rootSourceName>> :
           npmPackage \in DOMAIN after.map.packages \ DOMAIN held.map.packages }

\* The record of the created objects, with the new ones created by caller c
RecordCreated(c, new) ==
  [ name \in DOMAIN created \cup new |->
      (IF name \in DOMAIN created THEN created[name] ELSE <<>>)
        \o (IF name \in new THEN <<c>> ELSE <<>>) ]

\* A caller calls a public method: the call waits for the mutex
StartCall(c) ==
  /\ phase = "created"
  /\ callers[c].pc = "idle"
  /\ calls < MaxCalls
  /\ calls' = calls + 1
  /\ \E request \in ConcurrentRequests :
       callers' = [callers EXCEPT ![c] = [pc |-> "waiting", request |-> request,
                                          overlapped |-> acquired]]
  /\ UNCHANGED <<coverageVars, loop, loopErrors, fs, phase, map, createResult, resolvedFileBySourceName, ret, readCount,
                 firstRemappings, acquired, created>>

\* Variant of EnterPublicMethod that runs the body without the mutex
EnterPublicMethodUnlocked(c) ==
  /\ callers[c].pc = "waiting"
  /\ acquired' = TRUE
  /\ callers' = [callers EXCEPT ![c] = [pc |-> "running", request |-> @.request,
                                        overlapped |-> @.overlapped, held |-> ResolverState]]
  /\ UNCHANGED <<coverageVars, loop, loopErrors, fs, phase, map, createResult, resolvedFileBySourceName, ret, readCount,
                 firstRemappings, calls, created>>

\* The mutex can be acquired
MutexFree == ~acquired

\* this.#mutex.exclusiveRun(async () => ...): the mutex is free, the call
\* acquires it and the body starts; it reads the resolver and suspends on
\* the file system
EnterPublicMethod(c) ==
  /\ callers[c].pc = "waiting"
  /\ MutexFree
  /\ acquired' = TRUE
  /\ callers' = [callers EXCEPT ![c] = [pc |-> "running", request |-> @.request,
                                        overlapped |-> @.overlapped, held |-> ResolverState]]
  /\ UNCHANGED <<coverageVars, loop, loopErrors, fs, phase, map, createResult, resolvedFileBySourceName, ret, readCount,
                 firstRemappings, calls, created>>

\* The body resumes, writes what it resolved and returns; the mutex is
\* released
LeavePublicMethod(c) ==
  /\ callers[c].pc = "running"
  /\ \E r \in {RunRequest(callers[c].held, callers[c].request)} :
       /\ SetResolverState(r.st)
       /\ ret' = [caller |-> c, overlapped |-> callers[c].overlapped, result |-> r.result]
                   @@ callers[c].request
       /\ created' = RecordCreated(c, CreatedBetween(callers[c].held, r.st))
  /\ acquired' = FALSE
  /\ callers' = [callers EXCEPT ![c] = [pc |-> "idle"]]
  /\ UNCHANGED <<coverageVars, loop, loopErrors, fs, phase, createResult, firstRemappings, calls>>

\* The error left the loop while it worked on the package: noted in the
\* order of the errors
Abandon(m, npmPackage) == [m EXCEPT !.abandoned = Append(@, npmPackage)]

\* The map when #resolveAnyRemainingRemappings is left by an error of the
\* file system while it reads the remappings.txt file after the first k of
\* the package at the head of the queue: the list of the package was set,
\* the first k files are resolved, the queue was not shifted
AbortedDrain(m, k) ==
  Abandon(ResolveFiles([m |-> Discover(SetEmptyUserRemappings(m, NextToResolve(m)),
                                       NextToResolve(m)),
                        errors |-> <<>>],
                       NextToResolve(m),
                       SubSeq(RemappingsTxtFilesOf(m.packages[NextToResolve(m)].rootFsPath),
                              1, k)).m,
          NextToResolve(m))

\* The files of the package at the head of the queue that can have been
\* resolved when the drain is left by an error
AbortPoints(m) ==
  {0} \cup 0..(Len(RemappingsTxtFilesOf(m.packages[NextToResolve(m)].rootFsPath)) - 1)

\* The body of resolveNpmDependencyFileAsRoot is left by an unexpected error
\* while the map drains its queue for a dependency it has just loaded (no
\* user remapping of the project applies to the modules asked for); the
\* mutex is released, what the body wrote stays
AbandonCall(c) ==
  /\ callers[c].pc = "running"
  /\ callers[c].request.op = "resolveNpmDependencyFileAsRoot"
  /\ \E dep \in {ResolveDependencyInternal(callers[c].held.map, ProjectId,
                     parseNpmDirectImport(callers[c].request.npmModule).package)} :
       /\ dep.result # None
       /\ dep.m.remappingsToResolve # <<>>
       /\ \E k \in AbortPoints(dep.m) :
            /\ map' = AbortedDrain(dep.m, k)
            /\ created' = RecordCreated(c, CreatedBetween(callers[c].held,
                             [callers[c].held EXCEPT !.map = dep.m]))
  /\ ret' = [caller |-> c, overlapped |-> callers[c].overlapped,
             result |-> Thrown("unexpected file system error")] @@ callers[c].request
  /\ acquired' = FALSE
  /\ callers' = [callers EXCEPT ![c] = [pc |-> "idle"]]
  /\ UNCHANGED <<coverageVars, loop, loopErrors, fs, phase, createResult, resolvedFileBySourceName, readCount, firstRemappings,
                 calls>>

NextConcurrent ==
  \/ Create
  \/ \E c \in Callers : StartCall(c)
  \/ \E c \in Callers : EnterPublicMethod(c)
  \/ \E c \in Callers : LeavePublicMethod(c)
  \/ \E c \in Callers : AbandonCall(c)
  \/ GetUserRemappingsCall

SpecConcurrent == Init /\ [][NextConcurrent]_vars

(***************************************************************************)
(* Files that appear on disk during the resolver's lifetime.  Every        *)
(* resolution asks the file system again (validateFsPath, the reads of      *)
(* #buildResolvedFile); the resolver keeps no record of a failure.          *)
(***************************************************************************)
\* The files that are written after the resolver was created
LateFiles == { RootP \o <<"/","A">> \o DotSol, DirA \o <<"/","A">> \o DotSol }

\* Files of the project in directories named project and npm
OddFiles ==
  { RootP \o Slash \o HARDHAT_PROJECT_ROOT_SOURCE_NAME \o <<"/","g","/","X">> \o DotSol,
    RootP \o Slash \o S_npm_slash \o <<"a","@","1","/","Z">> \o DotSol }

\* A user remapping of the project whose target is written with npm/
Line_z_to_npm == <<"z","/","=">> \o S_npm_slash \o <<"a","@","1","/">>

\* The project with its late files missing, with the files of OddFiles, and
\* with one more line in the remappings.txt of its root
WorldLateFiles ==
  [WorldLazyErrors EXCEPT
     !.files = (@ \ LateFiles) \cup OddFiles,
     !.remappingsTxt[3].lines = Append(@, Line_z_to_npm)]

\* A file is written to the disk
FileAppears ==
  /\ phase = "created"
  /\ \E f \in LateFiles \ fs.files : fs' = [fs EXCEPT !.files = @ \cup {f}]
  /\ UNCHANGED <<coverageVars, loop, loopErrors, phase, map, createResult, resolvedFileBySourceName, ret,
                 readCount, firstRemappings, calls, acquired, callers, created>>

InitAppearing ==
  /\ fs = WorldLateFiles
  /\ phase = "new"
  /\ map = EmptyMap
  /\ createResult = None
  /\ resolvedFileBySourceName = <<>>
  /\ ret = [op |-> "none"]
  /\ readCount = <<>>
  /\ firstRemappings = <<>>
  /\ calls = 0
  /\ acquired = FALSE
  /\ callers = [c \in Callers |-> [pc |-> "idle"]]
  /\ created = <<>>
  /\ loop = [pc |-> "idle"]
  /\ loopErrors = <<>>
  /\ LazyCoverageManagerConstructed

NextAppearing ==
  \/ Create
  \/ ResolveProjectFileCall
  \/ ResolveNpmDependencyFileAsRootCall
  \/ ResolveImportCall
  \/ FileAppears

SpecAppearing == InitAppearing /\ [][NextAppearing]_vars

(***************************************************************************)
(* LazyCoverageManager: save() and load() await #getCoverageManager, which *)
(* awaits two dynamic imports before it stores the manager it constructs.  *)
(***************************************************************************)
resolverVars ==
  <<fs, phase, map, createResult, resolvedFileBySourceName, ret, readCount, firstRemappings,
    calls, acquired, callers, created, loop, loopErrors>>

\* this.#coverageManager === undefined (line 29)
ManagerMissing == coverageManager = None

\* save() or load() is called: #getCoverageManager runs up to its first
\* await, or returns the stored manager (lines 18, 23, 29-32, 45)
CallCoverage(c) ==
  /\ coverageCalls[c].pc = "idle"
  /\ \E method \in {"save", "load"} :
       coverageCalls' = [coverageCalls EXCEPT ![c] =
         IF ManagerMissing
         THEN [pc |-> "importPublic", method |-> method]
         ELSE [pc |-> "got", method |-> method, coverageManager |-> coverageManager]]
  /\ UNCHANGED <<coverageManager, constructed, resolverVars>>

\* await import("../coverage-manager.js") settles; the second import is
\* awaited (lines 30-35)
PublicImported(c) ==
  /\ coverageCalls[c].pc = "importPublic"
  /\ coverageCalls' = [coverageCalls EXCEPT ![c].pc = "importInternal"]
  /\ UNCHANGED <<coverageManager, constructed, resolverVars>>

\* await import("../internal/coverage-manager.js") settles: the public
\* manager is constructed, stored and returned (lines 36-45)
InternalImported(c) ==
  /\ coverageCalls[c].pc = "importInternal"
  /\ constructed' = Append(constructed, [id |-> Len(constructed) + 1])
  /\ coverageManager' = [id |-> Len(constructed) + 1]
  /\ coverageCalls' = [coverageCalls EXCEPT ![c] =
       [pc |-> "got", method |-> @.method, coverageManager |-> [id |-> Len(constructed) + 1]]]
  /\ UNCHANGED resolverVars

\* return coverageManager.save() / coverageManager.load() (lines 19, 24)
Delegate(c) ==
  /\ coverageCalls[c].pc = "got"
  /\ coverageCalls' = [coverageCalls EXCEPT ![c].pc = "delegated"]
  /\ UNCHANGED <<coverageManager, constructed, resolverVars>>

InitCoverage ==
  /\ fs = WorldNoRemappings
  /\ phase = "new"
  /\ map = EmptyMap
  /\ createResult = None
  /\ resolvedFileBySourceName = <<>>
  /\ ret = [op |-> "none"]
  /\ readCount = <<>>
  /\ firstRemappings = <<>>
  /\ calls = 0
  /\ acquired = FALSE
  /\ callers = [c \in Callers |-> [pc |-> "idle"]]
  /\ created = <<>>
  /\ loop = [pc |-> "idle"]
  /\ loopErrors = <<>>
  /\ LazyCoverageManagerConstructed

NextCoverage ==
  \/ \E c \in CoverageCalls : CallCoverage(c)
  \/ \E c \in CoverageCalls : PublicImported(c)
  \/ \E c \in CoverageCalls : InternalImported(c)
  \/ \E c \in CoverageCalls : Delegate(c)

SpecCoverage == InitCoverage /\ [][NextCoverage]_vars

(***************************************************************************)
(* Properties of the package map                                           *)
(***************************************************************************)
\* The installation edges of the map, as <<owner, installationName>>
Edges ==
  { <<from, name>> : from \in DOMAIN map.installationMap,
                     name \in UNION { DOMAIN map.installationMap[o] : o \in DOMAIN map.installationMap } }
  \cap { e \in (DOMAIN map.installationMap) \X
                 UNION { DOMAIN map.installationMap[o] : o \in DOMAIN map.installationMap } :
           e[2] \in DOMAIN map.installationMap[e[1]] }

EdgeOf(e) == map.installationMap[e[1]][e[2]]

\* C1: package canonicity.  No two distinct packages of the map have the same
\* rootSourceName, two installation edges whose targets have equal
\* rootSourceName target the same package, and the package registered under a
\* root source name is the first one loaded with it.
C1_PackageCanonicity ==
  /\ \A i, j \in DOMAIN map.packages :
       map.packages[i].rootSourceName = map.packages[j].rootSourceName => i = j
  /\ \A e1, e2 \in Edges :
       map.packages[EdgeOf(e1).package].rootSourceName
         = map.packages[EdgeOf(e2).package].rootSourceName
       => EdgeOf(e1).package = EdgeOf(e2).package
  /\ \A i \in DOMAIN map.packages :
       map.packageByRootSourceName[map.packages[i].rootSourceName] = i

\* Two installation names of one owner reach the same package: the package
\* was found again through an alias and reused.
C1_Witness ==
  \E e1, e2 \in Edges :
    /\ e1[1] = e2[1]
    /\ e1[2] # e2[2]
    /\ EdgeOf(e1).package = EdgeOf(e2).package

\* C2: invariant P2.  Two distinct packages of the map, the project's
\* package included, never have the same rootFsPath.
C2_DistinctRootFsPath ==
  \A i, j \in DOMAIN map.packages :
    map.packages[i].rootFsPath = map.packages[j].rootFsPath => i = j

\* An installation name led to the project's own package.json, and the edge
\* targets the project package, next to a package from node_modules.
C2_Witness ==
  /\ \E e \in Edges : EdgeOf(e).package = ProjectId
  /\ Len(map.packages) >= 2

\* The generated remapping of every edge has the shape the edge determines
GeneratedRemappingShape ==
  \A e \in Edges :
    /\ EdgeOf(e).generatedRemapping.context = map.packages[e[1]].rootSourceName \o <<"/">>
    /\ EdgeOf(e).generatedRemapping.prefix = e[2] \o <<"/">>
    /\ EdgeOf(e).generatedRemapping.target
         = map.packages[EdgeOf(e).package].rootSourceName \o <<"/">>

\* A generated remapping was created once per edge: no edge appears twice in
\* the log of creations, every edge appears in it, and no two edges hold the
\* same remapping object.
GeneratedOncePerEdge ==
  /\ \A i, j \in DOMAIN map.generatedFor : map.generatedFor[i] = map.generatedFor[j] => i = j
  /\ Edges = { map.generatedFor[i] : i \in DOMAIN map.generatedFor }
  /\ \A e1, e2 \in Edges :
       EdgeOf(e1).generatedRemapping.id = EdgeOf(e2).generatedRemapping.id => e1 = e2

\* A call for an edge that existed returns that edge's package and remapping
ExistingEdgeReturned ==
  (ret.op = "resolveDependencyByInstallationName" /\ ret.before # None)
  => /\ ret.result # None
     /\ ret.result.package = ret.before.package
     /\ ret.result.generatedRemapping = ret.before.generatedRemapping

\* No step changes an edge that exists
EdgesKept ==
  \A e \in Edges :
    /\ e[1] \in DOMAIN map'.installationMap
    /\ e[2] \in DOMAIN map'.installationMap[e[1]]
    /\ map'.installationMap[e[1]][e[2]] = EdgeOf(e)

\* C3: for every installation edge the generated remapping is created exactly
\* once and has the shape {owner root + "/", installation name + "/",
\* dependency root + "/"}; a later call for the edge returns the same package
\* and the same remapping object, and no step overwrites an existing edge.
C3_GeneratedRemappingOncePerEdge ==
  [][ /\ EdgesKept
      /\ GeneratedRemappingShape'
      /\ GeneratedOncePerEdge'
      /\ ExistingEdgeReturned' ]_vars

\* The public method was called for an edge that already existed
C3_Witness ==
  /\ ret.op = "resolveDependencyByInstallationName"
  /\ ret.before # None
  /\ ret.result # None

(***************************************************************************)
(* The errors construction has to report, computed line by line from the   *)
(* remappings.txt files of the packages, without the map's bookkeeping     *)
(***************************************************************************)
\* The kind of error of one line of a remappings.txt of the package rooted
\* at rootFsPath; "" when the line is accepted or skipped.
LineErrorType(rootFsPath, line) ==
  LET remapping == parseRemappingString(line)
      target == Drop(remapping.target, Len(S_node_modules_slash))
      installationName == getNpmPackageName(target)
  IN CASE remapping = None -> "REMAPPING_WITH_INVALID_SYNTAX"
       [] remapping # None /\ ~HasSlashEndings(remapping) ->
            "ILLEGAL_REMAPPING_WIHTOUT_SLASH_ENDINGS"
       [] OTHER ->
            IF ~StartsWith(remapping.target, S_node_modules_slash) THEN ""
            ELSE IF remapping.prefix = target THEN ""
            ELSE IF installationName = None THEN "REMAPPING_WITH_INVALID_SYNTAX"
            ELSE IF findDependencyPackageJson(rootFsPath, installationName.name) = None
            THEN "REMAPPING_TO_UNINSTALLED_PACKAGE"
            ELSE ""

RECURSIVE ErrorsOfLines(_, _, _)
ErrorsOfLines(rootFsPath, source, lines) ==
  IF lines = <<>> THEN <<>>
  ELSE (IF LineErrorType(rootFsPath, lines[1]) = "" THEN <<>>
        ELSE << [type |-> LineErrorType(rootFsPath, lines[1]),
                 source |-> source, remapping |-> lines[1]] >>)
       \o ErrorsOfLines(rootFsPath, source, Tail(lines))

RECURSIVE ErrorsOfFiles(_, _)
ErrorsOfFiles(rootFsPath, remappingsTxtFiles) ==
  IF remappingsTxtFiles = <<>> THEN <<>>
  ELSE ErrorsOfLines(rootFsPath, remappingsTxtFiles[1].path,
                     RawUserRemappings(remappingsTxtFiles[1].lines))
       \o ErrorsOfFiles(rootFsPath, Tail(remappingsTxtFiles))

\* The errors of the remappings.txt files of one package, in traversal order
ErrorsOfPackage(npmPackage) ==
  ErrorsOfFiles(map.packages[npmPackage].rootFsPath,
                RemappingsTxtFilesOf(map.packages[npmPackage].rootFsPath))

RECURSIVE ErrorsOfPackages(_)
\* The errors of the packages, in the order given
ErrorsOfPackages(npmPackages) ==
  IF npmPackages = <<>> THEN <<>>
  ELSE ErrorsOfPackage(npmPackages[1]) \o ErrorsOfPackages(Tail(npmPackages))

\* How many times e occurs in the sequence
Occurrences(seq, e) == Cardinality({ i \in DOMAIN seq : seq[i] = e })

\* C4: construction returns success exactly when no remappings.txt of any
\* package processed during construction (the project and every package
\* loaded transitively) produced an error; otherwise it returns a failure
\* that carries every one of those errors, each as often as it was produced,
\* and nothing else; a success carries no errors and a failure no map.
C4_CreateAllErrorsOrMap ==
  ret.op = "create" =>
    /\ createResult.success <=> ErrorsOfPackages(map.enqueued) = <<>>
    /\ createResult.success => ("error" \notin DOMAIN createResult /\ phase = "created")
    /\ ~createResult.success =>
         /\ phase = "failed"
         /\ Len(createResult.error) = Len(ErrorsOfPackages(map.enqueued))
         /\ \A i \in DOMAIN createResult.error :
              Occurrences(createResult.error, createResult.error[i])
                = Occurrences(ErrorsOfPackages(map.enqueued), createResult.error[i])

\* The package that owns the remappings.txt an error was reported for
PackagesOfSource(source) ==
  { i \in DOMAIN map.packages :
      \E k \in DOMAIN RemappingsTxtFilesOf(map.packages[i].rootFsPath) :
        RemappingsTxtFilesOf(map.packages[i].rootFsPath)[k].path = source }

\* Construction failed with errors of more than one package
C4_Witness ==
  /\ ret.op = "create"
  /\ ~createResult.success
  /\ \E i, j \in DOMAIN createResult.error :
       PackagesOfSource(createResult.error[i].source)
         # PackagesOfSource(createResult.error[j].source)

\* C5: the errors construction returns are ordered: by package in the order
\* the packages were enqueued, within a package by its remappings.txt files
\* in traversal order, within a file by line.
C5_CreateErrorOrder ==
  (ret.op = "create" /\ ~createResult.success)
  => createResult.error = ErrorsOfPackages(map.enqueued)

\* Construction failed with two errors of one file, errors of two files of
\* one package, and errors of two packages
C5_Witness ==
  /\ ret.op = "create"
  /\ ~createResult.success
  /\ \E i, j \in DOMAIN createResult.error :
       i < j /\ createResult.error[i].source = createResult.error[j].source
  /\ \E i, j \in DOMAIN createResult.error :
       /\ createResult.error[i].source # createResult.error[j].source
       /\ PackagesOfSource(createResult.error[i].source)
            = PackagesOfSource(createResult.error[j].source)
  /\ \E i, j \in DOMAIN createResult.error :
       PackagesOfSource(createResult.error[i].source)
         # PackagesOfSource(createResult.error[j].source)

\* C6: whenever create or the public resolveDependencyByInstallationName has
\* returned, the queue of packages awaiting remapping resolution is empty and
\* every package of the map has a resolved list of user remappings, so
\* getUserRemappings returns a list for every package of the map.
C6_QueueDrained ==
  phase # "new" =>
    /\ map.remappingsToResolve = <<>>
    /\ \A npmPackage \in DOMAIN map.installationMap :
         /\ npmPackage \in DOMAIN map.userRemappingsPerPackage
         /\ "list" \in DOMAIN getUserRemappings(map, npmPackage)
    /\ ret.op = "getUserRemappings" => "list" \in DOMAIN ret.result

\* A public call loaded a package, and the drain of that call resolved the
\* package's remappings.txt (it reported the errors found there)
C6_Witness ==
  /\ ret.op = "resolveDependencyByInstallationName"
  /\ ret.result # None
  /\ ret.before = None
  /\ ret.result.remappingErrros # None
  /\ ret.result.package \in DOMAIN map.userRemappingsPerPackage

(***************************************************************************)
(* Properties of the resolver                                              *)
(***************************************************************************)
\* The last call was a resolveImport that succeeded through npm: with the
\* generated remapping of an edge, not with a user remapping
ImportSucceededThroughNpm ==
  /\ ret.op = "resolveImport"
  /\ ret.result.kind = "success"
  /\ ret.result.value.file.type = "NPM_PACKAGE_FILE"
  /\ ~isResolvedUserRemapping(ret.result.value.remapping)

\* C7: a resolveImport that resolves through npm into a dependency whose
\* remappings.txt files have errors never succeeds, on the first import of
\* the dependency or on a later one.
C7_ImportOfPackageWithRemappingErrorsFails ==
  ImportSucceededThroughNpm => ErrorsOfPackage(ret.result.value.file.package) = <<>>

\* The user remappings of no package change once they are resolved
UserRemappingsKept ==
  \A npmPackage \in DOMAIN map.userRemappingsPerPackage :
    phase = "created" =>
      /\ npmPackage \in DOMAIN map'.userRemappingsPerPackage
      /\ map'.userRemappingsPerPackage[npmPackage] = map.userRemappingsPerPackage[npmPackage]

\* getUserRemappings returns the objects its first call for the package
\* returned, position by position
SameAsFirstRemappings ==
  /\ \A npmPackage \in DOMAIN firstRemappings :
       getUserRemappings(map, npmPackage) = [list |-> firstRemappings[npmPackage]]
  /\ (ret.op = "getUserRemappings" /\ ret.repeated)
       => ret.result = [list |-> firstRemappings[ret.npmPackage]]

\* C8: remapping stability.  Repeated calls of getUserRemappings(pkg) return
\* the same sequence of the same remapping objects, and once the remappings
\* of a package are resolved no later step (loading further dependencies
\* included) adds to, removes from or reorders its list.
C8_RemappingStability == [][UserRemappingsKept /\ SameAsFirstRemappings']_vars

\* getUserRemappings was called again for a package with user remappings,
\* after a package was loaded whose own remapping is newer than all of them
C8_Witness ==
  /\ ret.op = "getUserRemappings"
  /\ ret.repeated
  /\ ret.result.list # <<>>
  /\ \E other \in DOMAIN map.userRemappingsPerPackage :
       /\ other # ret.npmPackage
       /\ map.userRemappingsPerPackage[other] # <<>>
       /\ \A i \in DOMAIN ret.result.list :
            ret.result.list[i].id < map.userRemappingsPerPackage[other][1].id

\* The file a successful resolution of the resolver returned
ReturnedFile ==
  IF ret.op = "resolveProjectFile" THEN ret.result.value ELSE ret.result.value.file

\* C9: idempotent resolution.  A successful resolution returns the file
\* interned under its source name (so resolving twice returns the same
\* object), and no file is read from disk and analyzed more than once over
\* the resolver's lifetime.
C9_IdempotentResolutionReadOnce ==
  /\ ( /\ ret.op \in {"resolveProjectFile", "resolveImport", "resolveNpmDependencyFileAsRoot"}
       /\ ret.result.kind = "success" )
     => /\ ReturnedFile.sourceName \in DOMAIN resolvedFileBySourceName
        /\ resolvedFileBySourceName[ReturnedFile.sourceName] = ReturnedFile
  /\ \A fsPath \in DOMAIN readCount : readCount[fsPath] <= 1

\* The direct import #resolveImport computes for a relative import
DirectImportOf(from, importPath) ==
  sourceNamePathJoin(<<PathDirname(from.sourceName), importPath>>)

\* C10: no leaks across packages.  A relative import of a resolved file whose
\* target does not lie inside the source-name root of the file's package
\* (the root source name followed by "/") is rejected with
\* ILLEGAL_RELATIVE_IMPORT.
C10_RelativeImportStaysInPackage ==
  ( /\ ret.op = "resolveImport"
    /\ IsRelativeImport(ret.importPath)
    /\ ~StartsWith(DirectImportOf(ret.from, ret.importPath),
                   map.packages[ret.from.package].rootSourceName \o <<"/">>) )
  => /\ ret.result.kind = "failure"
     /\ ret.result.error.type = "ILLEGAL_RELATIVE_IMPORT"

\* The best user remapping of the package of `from` for the direct import
BestUserRemappingOf(from, directImport) ==
  selectBestRemapping(from.sourceName, directImport, map.userRemappingsPerPackage[from.package])

\* C11: a relative import that stays inside its package and is matched by no
\* user remapping ends in a Result: the success with the interned file of
\* from's package whose source name is join(dirname(from.sourceName),
\* importPath), or the failure IMPORT_DOESNT_EXIST or IMPORT_INVALID_CASING.
C11_RelativeImportResolvedInPackage ==
  ret.op = "resolveImport" =>
    ( ( /\ IsRelativeImport(ret.importPath)
        /\ StartsWith(DirectImportOf(ret.from, ret.importPath),
                      map.packages[ret.from.package].rootSourceName \o <<"/">>)
        /\ BestUserRemappingOf(ret.from, DirectImportOf(ret.from, ret.importPath)) = None )
      => \/ /\ ret.result.kind = "success"
            /\ ret.result.value.file.sourceName = DirectImportOf(ret.from, ret.importPath)
            /\ ret.result.value.file.package = ret.from.package
            /\ Interned(ResolverState, ret.result.value.file.sourceName) = ret.result.value.file
         \/ /\ ret.result.kind = "failure"
            /\ ret.result.error.type \in {"IMPORT_DOESNT_EXIST", "IMPORT_INVALID_CASING"} )

\* What #resolveImportThroughNpm returns for the direct import in this state
NpmResolutionOf(from, importPath) ==
  ResolveImportThroughNpm(ResolverState, from, importPath, importPath).result

\* The next state is the return of resolveImport(from, importPath) for a
\* direct import that no user remapping of from's package matches
DirectImportWithoutRemappingReturned ==
  /\ ret'.op = "resolveImport"
  /\ ~Includes(ret'.importPath, <<"\\">>)
  /\ ~IsRelativeImport(ret'.importPath)
  /\ BestUserRemappingOf(ret'.from, ret'.importPath) = None

\* The direct-local fallback of one step
DirectLocalFallback ==
  DirectImportWithoutRemappingReturned =>
    LET npmResolutionResult == NpmResolutionOf(ret'.from, ret'.importPath)
    IN IF /\ npmResolutionResult.kind = "failure"
          /\ npmResolutionResult.error.type \in
               {"IMPORT_OF_UNINSTALLED_PACKAGE", "IMPORT_WITH_INVALID_NPM_SYNTAX"}
       THEN /\ ret'.result.kind = "failure"
            /\ IF DirectLocalImportFound(PathDirname(ret'.from.fsPath),
                                         map.packages[ret'.from.package].rootFsPath,
                                         ret'.importPath)
               THEN ret'.result.error.type = "IMPORT_DOESNT_EXIST"
               ELSE ret'.result = npmResolutionResult
       ELSE ret'.result = npmResolutionResult

\* C12: direct-local fallback.  When a direct import matched by no user
\* remapping fails npm resolution with IMPORT_OF_UNINSTALLED_PACKAGE or
\* IMPORT_WITH_INVALID_NPM_SYNTAX, resolveImport returns a failure value: the
\* tailored IMPORT_DOESNT_EXIST when a directory from dirname(from.fsPath) up
\* to the package root holds the literal importPath, else the npm failure;
\* every other outcome of the npm resolution is returned as it is.
C12_DirectLocalFallback == [][DirectLocalFallback]_vars

\* The root failure kind stated for each failure kind of the import resolution
NpmRootKindOf(importErrorType) ==
  CASE importErrorType = "IMPORT_WITH_INVALID_NPM_SYNTAX" -> "NPM_ROOT_FILE_NAME_WITH_INVALID_FORMAT"
    [] importErrorType = "IMPORT_WITH_WINDOWS_PATH_SEPARATORS" -> "NPM_ROOT_FILE_NAME_WITH_INVALID_FORMAT"
    [] importErrorType = "IMPORT_DOESNT_EXIST" -> "NPM_ROOT_FILE_DOESNT_EXIST_WITHIN_ITS_PACKAGE"
    [] importErrorType = "IMPORT_INVALID_CASING" -> "NPM_ROOT_FILE_WITH_INCORRRECT_CASING"
    [] importErrorType = "IMPORT_OF_UNINSTALLED_PACKAGE" -> "NPM_ROOT_FILE_OF_UNINSTALLED_PACKAGE"
    [] importErrorType = "IMPORT_OF_NPM_PACKAGE_WITH_REMAPPING_ERRORS" ->
         "NPM_ROOT_FILE_OF_PACKAGE_WITH_REMAPPING_ERRORS"
    [] importErrorType = "IMPORT_OF_NON_EXPORTED_NPM_FILE" -> "NPM_ROOT_FILE_NON_EXPORTED_FILE"
    [] OTHER -> "unmapped"

\* The import resolution resolveNpmDependencyFileAsRoot makes for npmModule
ImportOfRootOf(npmModule) ==
  ResolveImportInternal(ResolverState, fakeRootFile(ResolverState), npmModule).result

NpmRootFailureMapped ==
  ret'.op = "resolveNpmDependencyFileAsRoot" =>
    IF parseNpmDirectImport(ret'.npmModule) = None
    THEN /\ ret'.result.kind = "failure"
         /\ ret'.result.error.type = "NPM_ROOT_FILE_NAME_WITH_INVALID_FORMAT"
    ELSE LET importResult == ImportOfRootOf(ret'.npmModule)
         IN importResult.kind = "failure" =>
              /\ ret'.result.kind = "failure"
              /\ ret'.result.error.type = NpmRootKindOf(importResult.error.type)

\* C13: resolveNpmDependencyFileAsRoot maps every failure of the underlying
\* import resolution to the NPM_ROOT_FILE_* kind stated for it (a module string
\* that does not parse gives NPM_ROOT_FILE_NAME_WITH_INVALID_FORMAT) and so
\* returns a failure value; it never returns an IMPORT_* kind.
C13_NpmRootFailureMapped == [][NpmRootFailureMapped]_vars

\* Module strings of up to MaxModuleLen characters over ModuleChars
MaxModuleLen == 4

ModuleChars == {".", "/", "a", "@"}

ModuleStrings == UNION { [1..n -> ModuleChars] : n \in 0..MaxModuleLen }

IllegalRelativeImportUnreachable ==
  ret'.op = "resolveNpmDependencyFileAsRoot" =>
    /\ ret'.result #
         Thrown("This could not happen, as we validated that the module name is a valid npm module")
    /\ parseNpmDirectImport(ret'.npmModule) # None =>
         /\ ~IsRelativeImport(ret'.npmModule)
         /\ LET importResult == ImportOfRootOf(ret'.npmModule)
            IN ~( /\ importResult.kind = "failure"
                  /\ importResult.error.type = "ILLEGAL_RELATIVE_IMPORT" )
    /\ \A npmModule \in ModuleStrings :
         parseNpmDirectImport(npmModule) # None => ~IsRelativeImport(npmModule)

\* C14: in resolveNpmDependencyFileAsRoot the ILLEGAL_RELATIVE_IMPORT branch
\* is unreachable: every module string parseNpmDirectImport accepts is a
\* direct import for #resolveImport, whose result is then never
\* ILLEGAL_RELATIVE_IMPORT, and the call never fails the assertion "This could
\* not happen".
C14_IllegalRelativeImportUnreachable == [][IllegalRelativeImportUnreachable]_vars

\* A module string that parses was resolved and its import failure went
\* through the switch
C14_Witness ==
  /\ ret.op = "resolveNpmDependencyFileAsRoot"
  /\ parseNpmDirectImport(ret.npmModule) # None
  /\ ret.result.kind = "failure"
  /\ ret.result.error.type = "NPM_ROOT_FILE_OF_PACKAGE_WITH_REMAPPING_ERRORS"

NpmRootNeverProjectFile ==
  ( /\ ret'.op = "resolveNpmDependencyFileAsRoot"
    /\ parseNpmDirectImport(ret'.npmModule) # None ) =>
    LET importResult == ImportOfRootOf(ret'.npmModule)
    IN /\ ( /\ importResult.kind = "success"
            /\ importResult.value.file.type # "NPM_PACKAGE_FILE" ) =>
              /\ ret'.result.kind = "failure"
              /\ ret'.result.error.type = "NPM_ROOT_FILE_RESOLVES_TO_PROJECT_FILE"
       /\ ret'.result.kind = "success" =>
              /\ ret'.result.value.file.type = "NPM_PACKAGE_FILE"
              /\ \/ ret'.result.value.remapping = None
                 \/ /\ isResolvedUserRemapping(ret'.result.value.remapping)
                    /\ ret'.result.value.remapping =
                         BestUserRemappingOf(fakeRootFile(ResolverState), ret'.npmModule)

\* C15: resolveNpmDependencyFileAsRoot never succeeds with a project file.
\* When the underlying import resolution succeeds with a file that is not an
\* npm package file, the result is the failure
\* NPM_ROOT_FILE_RESOLVES_TO_PROJECT_FILE; on success the file is an npm
\* package file and the remapping is the applied user remapping or absent.
C15_NpmRootNeverProjectFile == [][NpmRootNeverProjectFile]_vars

\* The path lies in the directory or below it
LiesUnder(directory, absolutePath) == StartsWith(absolutePath, directory \o <<"/">>)

\* The path names a file of the disk, under some casing
ExistsOnDisk(absolutePath) ==
  \E f \in fs.files : ToLowerCase(f) = ToLowerCase(absolutePath)

ProjectFileOutsideOrMissing ==
  ret'.op = "resolveProjectFile" =>
    /\ ~LiesUnder(fs.projectRoot, ret'.absoluteFilePath) =>
         /\ ret'.result.kind = "failure"
         /\ ret'.result.error.type = "PROJECT_ROOT_FILE_NOT_IN_PROJECT"
         /\ resolvedFileBySourceName' = resolvedFileBySourceName
    /\ ( /\ LiesUnder(fs.projectRoot, ret'.absoluteFilePath)
         /\ ~ExistsOnDisk(ret'.absoluteFilePath) ) =>
         /\ ret'.result.kind = "failure"
         /\ ret'.result.error.type = "PROJECT_ROOT_FILE_DOESNT_EXIST"

\* C16: resolveProjectFile returns PROJECT_ROOT_FILE_NOT_IN_PROJECT for every
\* absolute path that does not lie under the project root directory, a path
\* of a sibling directory whose name starts with the root path included, and
\* then interns nothing; it returns PROJECT_ROOT_FILE_DOESNT_EXIST for every
\* path under the root that does not exist on disk.
C16_ProjectFileOutsideOrMissing == [][ProjectFileOutsideOrMissing]_vars

\* The path has a segment node_modules, at any depth
HasNodeModulesSegment(absolutePath) ==
  Includes(absolutePath, <<"/">> \o S_node_modules_slash)

ProjectFileInNodeModules ==
  /\ ( /\ ret'.op = "resolveProjectFile"
       /\ LiesUnder(fs.projectRoot, ret'.absoluteFilePath)
       /\ ExistsOnDisk(ret'.absoluteFilePath)
       /\ HasNodeModulesSegment(ret'.absoluteFilePath) ) =>
         /\ ret'.result.kind = "failure"
         /\ ret'.result.error.type = "PROJECT_ROOT_FILE_IN_NODE_MODULES"
  /\ ret'.op = "resolveProjectFile" =>
       \A sourceName \in DOMAIN resolvedFileBySourceName' \ DOMAIN resolvedFileBySourceName :
         ~HasNodeModulesSegment(resolvedFileBySourceName'[sourceName].fsPath)

\* C17: resolveProjectFile returns PROJECT_ROOT_FILE_IN_NODE_MODULES for every
\* existing file under the project root whose path has a node_modules segment
\* at any depth, and it interns no file located below a node_modules segment
\* as a project file.
C17_ProjectFileInNodeModules == [][ProjectFileInNodeModules]_vars

\* No two keys of #resolvedFileBySourceName differ only in letter case
InternTableCaseUnique ==
  \A s1, s2 \in DOMAIN resolvedFileBySourceName : ToLowerCase(s1) = ToLowerCase(s2) => s1 = s2

\* C18: resolveProjectFile looks the file up under the caller's casing and
\* then under the true casing: a successful call returns the interned object
\* of the physical file, whose fsPath is the path on disk and whose sourceName
\* is formed from it, whatever casing the caller used and whatever was
\* resolved before; no other interned file has the same path up to case, and
\* the intern table never holds two entries that differ only in letter case.
C18_ProjectFileInternedOncePerCasing ==
  /\ InternTableCaseUnique
  /\ ( /\ ret.op = "resolveProjectFile"
       /\ ret.result.kind = "success" ) =>
         /\ ret.result.value.fsPath \in fs.files
         /\ ToLowerCase(ret.result.value.fsPath) = ToLowerCase(ret.absoluteFilePath)
         /\ ret.result.value.sourceName =
              ProjectSourceName(ResolverState,
                                PathRelative(fs.projectRoot, ret.result.value.fsPath))
         /\ Interned(ResolverState, ret.result.value.sourceName) = ret.result.value
         /\ \A other \in ResolvedFiles :
              ToLowerCase(other.fsPath) = ToLowerCase(ret.result.value.fsPath) =>
                other = ret.result.value

\* A path in another casing than the disk's was resolved to a file that was
\* interned by an earlier call
C18_Witness ==
  /\ ret.op = "resolveProjectFile"
  /\ ret.result.kind = "success"
  /\ ret.absoluteFilePath # ret.result.value.fsPath
  /\ ret.result.value.id < Cardinality(DOMAIN resolvedFileBySourceName)

\* The user remappings of the package of `from`, in the order they were parsed
RemappingsOf(from) == map.userRemappingsPerPackage[from.package]

\* The remapping's context is a prefix of the source name of `from` and its
\* prefix is a prefix of the direct import
Qualifies(from, directImport, remapping) ==
  /\ StartsWith(from.sourceName, remapping.context)
  /\ StartsWith(directImport, remapping.prefix)

\* The i-th remapping qualifies and precedes every other qualifying one: by
\* the longer context, then by the longer prefix, then by being parsed later
IsChosen(from, directImport, i) ==
  /\ Qualifies(from, directImport, RemappingsOf(from)[i])
  /\ \A j \in DOMAIN RemappingsOf(from) \ {i} :
       Qualifies(from, directImport, RemappingsOf(from)[j]) =>
         \/ Len(RemappingsOf(from)[i].context) > Len(RemappingsOf(from)[j].context)
         \/ /\ Len(RemappingsOf(from)[i].context) = Len(RemappingsOf(from)[j].context)
            /\ Len(RemappingsOf(from)[i].prefix) > Len(RemappingsOf(from)[j].prefix)
         \/ /\ Len(RemappingsOf(from)[i].context) = Len(RemappingsOf(from)[j].context)
            /\ Len(RemappingsOf(from)[i].prefix) = Len(RemappingsOf(from)[j].prefix)
            /\ i > j

ChosenRemappings(from, directImport) ==
  { i \in DOMAIN RemappingsOf(from) : IsChosen(from, directImport, i) }

\* The result of the import resolution is the one of the user remapping
\* applied to the direct import
AppliedRemapping(result, directImport, remapping) ==
  \/ /\ result.kind = "success"
     /\ result.value.remapping = remapping
     /\ result.value.file.sourceName =
          remapping.target \o SubSeq(directImport, Len(remapping.prefix) + 1, Len(directImport))
  \/ /\ result.kind = "failure"
     /\ "userRemapping" \in DOMAIN result.error
     /\ result.error.userRemapping = [remapping |-> remapping]
     /\ EndsWith(remapping.target \o
                   SubSeq(directImport, Len(remapping.prefix) + 1, Len(directImport)),
                 result.error.subpath)

\* The result carries no user remapping
NoUserRemappingApplied(result) ==
  /\ result.kind = "success" => ~isResolvedUserRemapping(result.value.remapping)
  /\ result.kind = "failure" =>
       \/ "userRemapping" \notin DOMAIN result.error
       \/ result.error.userRemapping = None

\* C19: remapping selection.  For a direct import of the file `from`, the
\* user remapping applied is one of from.package whose context is a prefix of
\* from.sourceName and whose prefix is a prefix of the direct import: the one
\* with the longest context, among those the longest prefix, among those the
\* most recently parsed; it is applied by replacing its prefix at the start of
\* the direct import with its target.  If none qualifies, none is applied.
C19_RemappingSelection ==
  ( /\ ret.op = "resolveImport"
    /\ ~Includes(ret.importPath, <<"\\">>)
    /\ ~IsRelativeImport(ret.importPath) ) =>
      IF ChosenRemappings(ret.from, ret.importPath) = {}
      THEN /\ NoUserRemappingApplied(ret.result)
           /\ \A i \in DOMAIN RemappingsOf(ret.from) :
                ~Qualifies(ret.from, ret.importPath, RemappingsOf(ret.from)[i])
      ELSE \E i \in ChosenRemappings(ret.from, ret.importPath) :
             /\ ChosenRemappings(ret.from, ret.importPath) = {i}
             /\ AppliedRemapping(ret.result, ret.importPath, RemappingsOf(ret.from)[i])

\* An import for which two remappings of equal context and prefix qualify:
\* the later one was applied
C19_Witness ==
  /\ ret.op = "resolveImport"
  /\ ~IsRelativeImport(ret.importPath)
  /\ \E i, j \in DOMAIN RemappingsOf(ret.from) :
       /\ i > j
       /\ Qualifies(ret.from, ret.importPath, RemappingsOf(ret.from)[j])
       /\ RemappingsOf(ret.from)[i].prefix = RemappingsOf(ret.from)[j].prefix
       /\ RemappingsOf(ret.from)[i].context = RemappingsOf(ret.from)[j].context
       /\ AppliedRemapping(ret.result, ret.importPath, RemappingsOf(ret.from)[i])

\* A relative import was resolved whose direct form is matched by a user
\* remapping of the package of `from`
RelativeImportMatched ==
  /\ ret'.op = "resolveImport"
  /\ IsRelativeImport(ret'.importPath)
  /\ \E i \in DOMAIN RemappingsOf(ret'.from) :
       Qualifies(ret'.from, DirectImportOf(ret'.from, ret'.importPath), RemappingsOf(ret'.from)[i])

\* The call ended in a fatal error and changed neither the intern table nor
\* the package map
FatalWithoutEffect ==
  /\ ret'.result.kind = "thrown"
  /\ resolvedFileBySourceName' = resolvedFileBySourceName
  /\ map' = map

RelativeNeverSucceedsRemapped ==
  ( /\ ret'.op = "resolveImport"
    /\ IsRelativeImport(ret'.importPath)
    /\ ret'.result.kind = "success" ) => ~isResolvedUserRemapping(ret'.result.value.remapping)

\* C20 as stated: whenever a user remapping of from.package matches the direct
\* form of a relative import, resolveImport ends in a fatal error, interns no
\* file and leaves the package map unchanged; a relative import never returns
\* a success carrying a user remapping.
C20_RelativeImportMatchedIsFatal ==
  [][(RelativeImportMatched => FatalWithoutEffect) /\ RelativeNeverSucceedsRemapped]_vars

\* C20 amended: the fatal error is the outcome when the direct form of the
\* relative import passes the test of staying in the package of `from`; a
\* relative import that fails the test returns ILLEGAL_RELATIVE_IMPORT, also
\* when a user remapping matches its direct form.
C20_RelativeImportInPackageMatchedIsFatal ==
  [][ /\ ( /\ RelativeImportMatched
           /\ StaysInPackage(DirectImportOf(ret'.from, ret'.importPath),
                             map.packages[ret'.from.package].rootSourceName) ) =>
             /\ FatalWithoutEffect
             /\ ret'.result.message = "Invalid relative import and remapping"
      /\ ( /\ RelativeImportMatched
           /\ ~StaysInPackage(DirectImportOf(ret'.from, ret'.importPath),
                              map.packages[ret'.from.package].rootSourceName) ) =>
             /\ ret'.result.kind = "failure"
             /\ ret'.result.error.type = "ILLEGAL_RELATIVE_IMPORT"
             /\ resolvedFileBySourceName' = resolvedFileBySourceName
             /\ map' = map
      /\ RelativeNeverSucceedsRemapped ]_vars

\* A relative import whose direct form stays in the package and is matched by
\* a user remapping ended in the fatal error
C20_Witness ==
  /\ ret.op = "resolveImport"
  /\ IsRelativeImport(ret.importPath)
  /\ \E i \in DOMAIN RemappingsOf(ret.from) :
       Qualifies(ret.from, DirectImportOf(ret.from, ret.importPath), RemappingsOf(ret.from)[i])
  /\ ret.result = Thrown("Invalid relative import and remapping")

(***************************************************************************)
(* Properties of the user remappings                                       *)
(***************************************************************************)
\* The <<file, line>> pairs read from the remappings.txt files of the package
\* rooted at rootFsPath: the trimmed lines that are neither blank nor comments
SourceLinesOf(rootFsPath) ==
  UNION { { <<RemappingsTxtFilesOf(rootFsPath)[k].path,
              RawUserRemappings(RemappingsTxtFilesOf(rootFsPath)[k].lines)[i]>> :
              i \in DOMAIN RawUserRemappings(RemappingsTxtFilesOf(rootFsPath)[k].lines) } :
          k \in DOMAIN RemappingsTxtFilesOf(rootFsPath) }

\* The user remappings the map stores, of every package
StoredUserRemappings(m) ==
  UNION { { m.userRemappingsPerPackage[p][i] : i \in DOMAIN m.userRemappingsPerPackage[p] } :
          p \in DOMAIN m.userRemappingsPerPackage }

\* The remapping errors the last call reported
ReportedRemappingErrors(r) ==
  CASE r.op = "create" -> IF r.result.success THEN <<>> ELSE r.result.error
    [] r.op = "resolveDependencyByInstallationName" ->
         IF r.result = None THEN <<>>
         ELSE IF r.result.remappingErrros = None THEN <<>>
         ELSE r.result.remappingErrros.errors
    [] r.op \in {"resolveImport", "resolveNpmDependencyFileAsRoot"} ->
         IF r.result.kind = "failure" /\ "remappingErrors" \in DOMAIN r.result.error
         THEN r.result.error.remappingErrors ELSE <<>>
    [] OTHER -> <<>>

\* The line parses and its prefix or its target does not end in "/", or its
\* context is not empty and does not end in "/"
LacksSlashEnding(line) ==
  /\ parseRemappingString(line) # None
  /\ \/ ~EndsWith(parseRemappingString(line).prefix, <<"/">>)
     \/ ~EndsWith(parseRemappingString(line).target, <<"/">>)
     \/ /\ parseRemappingString(line).context # <<>>
        /\ ~EndsWith(parseRemappingString(line).context, <<"/">>)

\* The packages whose user remappings the step resolved
ResolvedByStep == DOMAIN map'.userRemappingsPerPackage \ DOMAIN map.userRemappingsPerPackage

SlashEndings ==
  /\ \A remapping \in StoredUserRemappings(map') :
       /\ EndsWith(remapping.prefix, <<"/">>)
       /\ EndsWith(remapping.target, <<"/">>)
       /\ remapping.context = <<>> \/ EndsWith(remapping.context, <<"/">>)
  /\ \A npmPackage \in ResolvedByStep :
       \A sl \in SourceLinesOf(map'.packages[npmPackage].rootFsPath) :
         LacksSlashEnding(sl[2]) =>
           /\ \A remapping \in StoredUserRemappings(map') :
                ~(remapping.source = sl[1] /\ remapping.originalFormat = sl[2])
           /\ \E i \in DOMAIN ReportedRemappingErrors(ret') :
                ReportedRemappingErrors(ret')[i] =
                  [ type |-> "ILLEGAL_REMAPPING_WIHTOUT_SLASH_ENDINGS",
                    source |-> sl[1], remapping |-> sl[2] ]

\* C21 (invariant R1): every user remapping the map stores, for every package
\* and after every step, has a prefix and a target that end in "/" and a
\* context that is empty or ends in "/"; a line whose prefix or target lacks
\* the trailing slash, or whose non-empty context lacks it, is reported with
\* the slash-endings error by the call that reads it and stores nothing.
C21_SlashEndings == [][SlashEndings]_vars

\* A package with a line without slash ending was loaded by a call after
\* construction, next to a line that was stored
C21_Witness ==
  /\ ret.op = "resolveDependencyByInstallationName"
  /\ \E i \in DOMAIN ReportedRemappingErrors(ret) :
       ReportedRemappingErrors(ret)[i].type = "ILLEGAL_REMAPPING_WIHTOUT_SLASH_ENDINGS"
  /\ \E remapping \in StoredUserRemappings(map) :
       \E i \in DOMAIN ReportedRemappingErrors(ret) :
         remapping.source = ReportedRemappingErrors(ret)[i].source

\* The remapping was stored for a line whose target began with node_modules/:
\* its target is the root source name of the package installed under the
\* installation name, followed by "/" and the rest of the written target
NpmTargetRewritten(owner, remapping, written) ==
  /\ ~StartsWith(remapping.target, S_node_modules_slash)
  /\ StartsWith(written.target,
                S_node_modules_slash \o remapping.targetNpmPackage.installationName \o <<"/">>)
  /\ remapping.target =
       map.packages[remapping.targetNpmPackage.package].rootSourceName \o <<"/">>
         \o SubSeq(written.target,
                   Len(S_node_modules_slash) + Len(remapping.targetNpmPackage.installationName) + 2,
                   Len(written.target))
  /\ remapping.targetNpmPackage.installationName \in DOMAIN map.installationMap[owner]
  /\ map.installationMap[owner][remapping.targetNpmPackage.installationName].package
       = remapping.targetNpmPackage.package

\* C22 (invariant R2): a stored user remapping has targetNpmPackage if and
\* only if the target of its line began with node_modules/; then the stored
\* target does not begin with node_modules/ and is the root source name of the
\* target package, "/" and the part of the written target after
\* node_modules/<installationName>/, and targetNpmPackage.package is the
\* package of the edge (owner, installationName), whatever name the
\* dependency declares; the prefix is the written one.
C22_NpmTargetRewritten ==
  \A owner \in DOMAIN map.userRemappingsPerPackage :
    \A i \in DOMAIN map.userRemappingsPerPackage[owner] :
      LET remapping == map.userRemappingsPerPackage[owner][i]
          written == parseRemappingString(remapping.originalFormat)
      IN /\ written # None
         /\ remapping.prefix = written.prefix
         /\ remapping.targetNpmPackage # None
              <=> StartsWith(written.target, S_node_modules_slash)
         /\ remapping.targetNpmPackage # None => NpmTargetRewritten(owner, remapping, written)

\* A remapping is stored whose target package declares another name than the
\* installation name it was written with, and whose target has a subpath
C22_Witness ==
  \E remapping \in StoredUserRemappings(map) :
    /\ remapping.targetNpmPackage # None
    /\ map.packages[remapping.targetNpmPackage.package].name
         # remapping.targetNpmPackage.installationName
    /\ ~EndsWith(remapping.target,
                 map.packages[remapping.targetNpmPackage.package].rootSourceName \o <<"/">>)

\* The source name of the directory of the remappings.txt file in the package
\* it was found in, with a trailing "/"
RemappingsDirectory(owner, source) ==
  map.packages[owner].rootSourceName
    \o SubSeq(source, Len(map.packages[owner].rootFsPath) + 1,
              Len(source) - Len(S_remappings_txt) - 1)
    \o <<"/">>

\* The fragment as a local remapping stores it
RewrittenFragment(owner, source, fragment) ==
  IF StartsWith(fragment, S_npm_slash) THEN fragment
  ELSE RemappingsDirectory(owner, source) \o fragment

\* The line of the file, with no white space around it
IsTrimmedLineOf(source, originalFormat) ==
  /\ originalFormat # <<>>
  /\ originalFormat[1] \notin Whitespace
  /\ originalFormat[Len(originalFormat)] \notin Whitespace
  /\ \E k \in DOMAIN fs.remappingsTxt :
       /\ fs.remappingsTxt[k].path = source
       /\ \E i \in DOMAIN fs.remappingsTxt[k].lines :
            \E before, after \in 0..Len(fs.remappingsTxt[k].lines[i]) :
              /\ fs.remappingsTxt[k].lines[i] =
                   SubSeq(fs.remappingsTxt[k].lines[i], 1, before) \o originalFormat
                     \o SubSeq(fs.remappingsTxt[k].lines[i],
                               Len(fs.remappingsTxt[k].lines[i]) - after + 1,
                               Len(fs.remappingsTxt[k].lines[i]))
              /\ \A j \in 1..before : fs.remappingsTxt[k].lines[i][j] \in Whitespace
              /\ \A j \in 1..after :
                   fs.remappingsTxt[k].lines[i][Len(fs.remappingsTxt[k].lines[i]) - j + 1]
                     \in Whitespace

\* The remapping is what a valid local line of the file becomes
IsRewrittenLocalLine(owner, remapping, source, line) ==
  /\ remapping.source = source
  /\ remapping.originalFormat = line
  /\ remapping.prefix = parseRemappingString(line).prefix
  /\ remapping.context = RewrittenFragment(owner, source, parseRemappingString(line).context)
  /\ remapping.target = RewrittenFragment(owner, source, parseRemappingString(line).target)
  /\ remapping.targetNpmPackage = None

\* C23: local remapping rewriting.  A valid line whose target does not begin
\* with node_modules/, found in <rootFsPath>/<dir>/remappings.txt of a
\* package, is stored with the context and the target prefixed by
\* <rootSourceName>/<dir>/ (an empty context becomes that path), unless the
\* fragment begins with npm/ and is kept; the prefix is the written one,
\* originalFormat the trimmed line, source the path of the file, and there is
\* no targetNpmPackage.
C23_LocalRemappingRewritten ==
  \A owner \in DOMAIN map.userRemappingsPerPackage :
    /\ \A i \in DOMAIN map.userRemappingsPerPackage[owner] :
         ~StartsWith(parseRemappingString(map.userRemappingsPerPackage[owner][i].originalFormat).target,
                     S_node_modules_slash) =>
           /\ IsTrimmedLineOf(map.userRemappingsPerPackage[owner][i].source,
                              map.userRemappingsPerPackage[owner][i].originalFormat)
           /\ IsRewrittenLocalLine(owner, map.userRemappingsPerPackage[owner][i],
                                   map.userRemappingsPerPackage[owner][i].source,
                                   map.userRemappingsPerPackage[owner][i].originalFormat)
    /\ \A sl \in SourceLinesOf(map.packages[owner].rootFsPath) :
         ( /\ parseRemappingString(sl[2]) # None
           /\ ~LacksSlashEnding(sl[2])
           /\ ~StartsWith(parseRemappingString(sl[2]).target, S_node_modules_slash) ) =>
             \E i \in DOMAIN map.userRemappingsPerPackage[owner] :
               IsRewrittenLocalLine(owner, map.userRemappingsPerPackage[owner][i], sl[1], sl[2])

\* Local remappings of a remappings.txt in a subdirectory are stored: one with
\* a written context, one whose fragments begin with npm/, and one of the
\* root file that was written with white space around it
C23_Witness ==
  \E r1, r2, r3 \in StoredUserRemappings(map) :
    /\ r1.targetNpmPackage = None /\ r2.targetNpmPackage = None /\ r3.targetNpmPackage = None
    /\ r1.context = HARDHAT_PROJECT_ROOT_SOURCE_NAME \o <<"/","l","i","b","/","c","/">>
    /\ StartsWith(r2.context, S_npm_slash) /\ StartsWith(r2.target, S_npm_slash)
    /\ r3.context = HARDHAT_PROJECT_ROOT_SOURCE_NAME \o <<"/">>
    /\ \E k \in DOMAIN fs.remappingsTxt :
         /\ fs.remappingsTxt[k].path = r3.source
         /\ \A i \in DOMAIN fs.remappingsTxt[k].lines : fs.remappingsTxt[k].lines[i] # r3.originalFormat

\* The line has the shape prefix/=node_modules/prefix/, with or without a
\* context
IsNoOpLine(line) ==
  /\ parseRemappingString(line) # None
  /\ ~LacksSlashEnding(line)
  /\ parseRemappingString(line).target
       = S_node_modules_slash \o parseRemappingString(line).prefix

\* The line is an npm remapping that names the installation and is not of the
\* no-op shape
LooksUpInstallation(line, installationName) ==
  /\ parseRemappingString(line) # None
  /\ ~LacksSlashEnding(line)
  /\ StartsWith(parseRemappingString(line).target, S_node_modules_slash)
  /\ ~IsNoOpLine(line)
  /\ getNpmPackageName(Drop(parseRemappingString(line).target, Len(S_node_modules_slash)))
       = [name |-> installationName]

\* The step that resolves the remappings of a package drops its no-op lines
NoOpRemappingDropped ==
  \A npmPackage \in ResolvedByStep :
    /\ \A sl \in SourceLinesOf(map'.packages[npmPackage].rootFsPath) :
         IsNoOpLine(sl[2]) =>
           /\ \A remapping \in StoredUserRemappings(map') :
                ~(remapping.source = sl[1] /\ remapping.originalFormat = sl[2])
           /\ \A i \in DOMAIN ReportedRemappingErrors(ret') :
                ~ /\ ReportedRemappingErrors(ret')[i].source = sl[1]
                  /\ ReportedRemappingErrors(ret')[i].remapping = sl[2]
    /\ \A installationName \in DOMAIN map'.installationMap[npmPackage] :
         \E sl \in SourceLinesOf(map'.packages[npmPackage].rootFsPath) :
           LooksUpInstallation(sl[2], installationName)

\* C24: an npm remapping of the shape prefix/=node_modules/prefix/ is a
\* no-op: the step that resolves the remappings of its package stores
\* nothing for the line and reports no error for it, and it looks up no
\* dependency for it (every dependency the package has after the step is
\* named by another npm remapping of the package), whether the installation
\* exists or not.
C24_NoOpRemappingDropped == [][NoOpRemappingDropped]_vars

\* Construction succeeded for a project whose remappings.txt has a no-op
\* line for an installation that does not exist and one for an installation
\* that exists, and that installation was not loaded
C24_Witness ==
  /\ ret.op = "create"
  /\ createResult.success
  /\ \E sl1, sl2 \in SourceLinesOf(RootP) :
       /\ IsNoOpLine(sl1[2]) /\ IsNoOpLine(sl2[2])
       /\ findDependencyPackageJson(RootP, parseRemappingString(sl1[2]).prefix) = None
       /\ findDependencyPackageJson(RootP, SubSeq(parseRemappingString(sl2[2]).prefix, 1, 1)) # None
       /\ SubSeq(parseRemappingString(sl2[2]).prefix, 1, 1) \notin DOMAIN map.installationMap[ProjectId]

\* The errors of the lines of the remappings.txt files of the package rooted
\* at rootFsPath: one error for each line that fails a check, of the kind of
\* the first check it fails
LineErrorsOf(rootFsPath) == ErrorsOfFiles(rootFsPath, RemappingsTxtFilesOf(rootFsPath))

\* How many times the packages whose remappings the step resolves produce e
ProducedByStep(e) ==
  Cardinality({ pi \in ResolvedByStep \X (1..Len(ReportedRemappingErrors(ret'))) :
                  /\ pi[2] \in DOMAIN LineErrorsOf(map'.packages[pi[1]].rootFsPath)
                  /\ LineErrorsOf(map'.packages[pi[1]].rootFsPath)[pi[2]] = e })

\* The line is stored as a remapping of the package
StoredLineOf(m, npmPackage, sl) ==
  \E i \in DOMAIN m.userRemappingsPerPackage[npmPackage] :
    /\ m.userRemappingsPerPackage[npmPackage][i].source = sl[1]
    /\ m.userRemappingsPerPackage[npmPackage][i].originalFormat = sl[2]

OneErrorPerLine ==
  /\ \A i \in DOMAIN ReportedRemappingErrors(ret') :
       /\ ProducedByStep(ReportedRemappingErrors(ret')[i])
            = Occurrences(ReportedRemappingErrors(ret'), ReportedRemappingErrors(ret')[i])
       /\ \E npmPackage \in ResolvedByStep :
            \E sl \in SourceLinesOf(map'.packages[npmPackage].rootFsPath) :
              /\ ReportedRemappingErrors(ret')[i].source = sl[1]
              /\ ReportedRemappingErrors(ret')[i].remapping = sl[2]
              /\ ReportedRemappingErrors(ret')[i].type
                   = LineErrorType(map'.packages[npmPackage].rootFsPath, sl[2])
  /\ \A npmPackage \in ResolvedByStep :
       /\ Len(LineErrorsOf(map'.packages[npmPackage].rootFsPath))
            <= Len(ReportedRemappingErrors(ret'))
       /\ \A sl \in SourceLinesOf(map'.packages[npmPackage].rootFsPath) :
            /\ LineErrorType(map'.packages[npmPackage].rootFsPath, sl[2]) # "" =>
                 /\ ~StoredLineOf(map', npmPackage, sl)
                 /\ \E i \in DOMAIN ReportedRemappingErrors(ret') :
                      ReportedRemappingErrors(ret')[i]
                        = [type |-> LineErrorType(map'.packages[npmPackage].rootFsPath, sl[2]),
                           source |-> sl[1], remapping |-> sl[2]]
            /\ (LineErrorType(map'.packages[npmPackage].rootFsPath, sl[2]) = ""
                  /\ ~IsNoOpLine(sl[2])) => StoredLineOf(map', npmPackage, sl)

RECURSIVE AcceptedLinesOfFile(_, _, _)
\* The lines of one file that become remappings, as <<file, line>>, in line
\* order
AcceptedLinesOfFile(rootFsPath, source, lines) ==
  IF lines = <<>> THEN <<>>
  ELSE (IF LineErrorType(rootFsPath, lines[1]) = "" /\ ~IsNoOpLine(lines[1])
        THEN << <<source, lines[1]>> >> ELSE <<>>)
       \o AcceptedLinesOfFile(rootFsPath, source, Tail(lines))

RECURSIVE AcceptedLinesOfFiles(_, _)
\* The same for the files, in the order they were discovered in
AcceptedLinesOfFiles(rootFsPath, remappingsTxtFiles) ==
  IF remappingsTxtFiles = <<>> THEN <<>>
  ELSE AcceptedLinesOfFile(rootFsPath, remappingsTxtFiles[1].path,
                           RawUserRemappings(remappingsTxtFiles[1].lines))
       \o AcceptedLinesOfFiles(rootFsPath, Tail(remappingsTxtFiles))

ExportedAs(exports, requested, mapped) ==
  \E i \in 1..(Len(requested) + 3), j \in 0..(Len(requested) + 2) :
    /\ <<".", "/">> \o requested
         = SubSeq(exports.key, 1, IndexOf(exports.key, "*") - 1)
             \o SubSeq(<<".", "/">> \o requested, i, j)
             \o SubSeq(exports.key, IndexOf(exports.key, "*") + 1, Len(exports.key))
    /\ <<".", "/">> \o mapped
         = SubSeq(exports.target, 1, IndexOf(exports.target, "*") - 1)
             \o SubSeq(<<".", "/">> \o requested, i, j)
             \o SubSeq(exports.target, IndexOf(exports.target, "*") + 1, Len(exports.target))

\* The exports map the requested subpath to something
Exported(exports, requested) ==
  \E i \in 1..(Len(requested) + 3), j \in 0..(Len(requested) + 2) :
    <<".", "/">> \o requested
      = SubSeq(exports.key, 1, IndexOf(exports.key, "*") - 1)
          \o SubSeq(<<".", "/">> \o requested, i, j)
          \o SubSeq(exports.key, IndexOf(exports.key, "*") + 1, Len(exports.key))

\* The exports map some subpath to this one
IsExportTarget(exports, mapped) ==
  \E i \in 1..(Len(mapped) + 3), j \in 0..(Len(mapped) + 2) :
    <<".", "/">> \o mapped
      = SubSeq(exports.target, 1, IndexOf(exports.target, "*") - 1)
          \o SubSeq(<<".", "/">> \o mapped, i, j)
          \o SubSeq(exports.target, IndexOf(exports.target, "*") + 1, Len(exports.target))

\* The file the step's call was made from, and the module it asked for
FromOfStep == IF ret'.op = "resolveImport" THEN ret'.from ELSE fakeRootFile(ResolverState)

ModuleOfStep == IF ret'.op = "resolveImport" THEN ret'.importPath ELSE ret'.npmModule

\* The step is an import of <installation name>/<requested> that no user
\* remapping took, into the package with exports
IsNpmImportIntoExports(installationName, requested, dependency) ==
  /\ ret'.op \in {"resolveImport", "resolveNpmDependencyFileAsRoot"}
  /\ ret'.result.kind \in {"success", "failure"}
  /\ NoUserRemappingApplied(ret'.result)
  /\ ModuleOfStep = installationName \o <<"/">> \o requested
  /\ installationName \in DOMAIN map'.installationMap[FromNpmPackage(FromOfStep)]
  /\ map'.installationMap[FromNpmPackage(FromOfStep)][installationName].package = dependency
  /\ map'.packages[dependency].exports # None

ExportsSoundness ==
  /\ \A dependency \in DOMAIN map'.packages :
       \A k \in IF ret'.op \in {"resolveImport", "resolveNpmDependencyFileAsRoot"}
                THEN 2..(Len(ModuleOfStep) - 1) ELSE {} :
       IsNpmImportIntoExports(SubSeq(ModuleOfStep, 1, k - 1),
                              SubSeq(ModuleOfStep, k + 1, Len(ModuleOfStep)), dependency) =>
         /\ ret'.result.kind = "success" =>
              /\ ret'.result.value.file.package = dependency
              /\ StartsWith(ret'.result.value.file.sourceName,
                            map'.packages[dependency].rootSourceName \o <<"/">>)
              /\ ExportedAs(map'.packages[dependency].exports,
                            SubSeq(ModuleOfStep, k + 1, Len(ModuleOfStep)),
                            Drop(ret'.result.value.file.sourceName,
                                 Len(map'.packages[dependency].rootSourceName) + 1))
         /\ ~Exported(map'.packages[dependency].exports,
                      SubSeq(ModuleOfStep, k + 1, Len(ModuleOfStep))) =>
              /\ ret'.result.kind = "failure"
              /\ ret'.result.error.type \in {"IMPORT_OF_NON_EXPORTED_NPM_FILE",
                                             "NPM_ROOT_FILE_NON_EXPORTED_FILE"}
              /\ resolvedFileBySourceName' = resolvedFileBySourceName
  /\ \A sourceName \in DOMAIN resolvedFileBySourceName' :
       ( /\ resolvedFileBySourceName'[sourceName].type = "NPM_PACKAGE_FILE"
         /\ map'.packages[resolvedFileBySourceName'[sourceName].package].exports # None ) =>
           IsExportTarget(map'.packages[resolvedFileBySourceName'[sourceName].package].exports,
                          Drop(sourceName,
                               Len(map'.packages[resolvedFileBySourceName'[sourceName].package].rootSourceName) + 1))

C27_Rejected ==
  /\ ret.op = "resolveImport"
  /\ ret.result.kind = "failure"
  /\ ret.result.error.type = "IMPORT_OF_NON_EXPORTED_NPM_FILE"
  /\ DirR \o <<"/">> \o ret.result.error.subpath \in fs.files

(***************************************************************************)
(* Properties of the concurrent callers                                    *)
(***************************************************************************)
\* The callers that are between the acquisition of the mutex and its release
InPublicMethod == { c \in Callers : callers[c].pc = "running" }

MutualExclusion ==
  /\ Cardinality(InPublicMethod') <= 1
  /\ acquired' <=> InPublicMethod' # {}
  /\ \A c \in InPublicMethod \ InPublicMethod' : callers[c].held = ResolverState
  /\ \A name \in DOMAIN created' : Len(created'[name]) = 1

\* C28: mutual exclusion.  Under every interleaving of the concurrently
\* started calls of resolveProjectFile, resolveNpmDependencyFileAsRoot and
\* resolveImport on one resolver, at most one call is between the
\* acquisition of the mutex and its release; while a body is suspended on
\* the file system no other call changes the resolver (what the body read
\* is still the state when it resumes); so every source name gets one
\* ResolvedFile and every dependency one Package, however many calls
\* resolve it at the same time.
C28_MutualExclusion == [][MutualExclusion]_vars

\* A call that was started while another call held the mutex returned the
\* file that the other caller had created
C28_Witness ==
  /\ "caller" \in DOMAIN ret
  /\ ret.op = "resolveNpmDependencyFileAsRoot"
  /\ ret.overlapped
  /\ ret.result.kind = "success"
  /\ <<"file", ret.result.value.file.sourceName>> \in DOMAIN created
  /\ created[<<"file", ret.result.value.file.sourceName>>] # <<ret.caller>>
  /\ <<"package", map.packages[ret.result.value.file.package].rootSourceName>> \in DOMAIN created

\* The packages that have an edge of the installation map leading to them
InstalledPackages ==
  { map.installationMap[from][installationName].package :
      from \in DOMAIN map.installationMap,
      installationName \in UNION { DOMAIN map.installationMap[o] : o \in DOMAIN map.installationMap } }

\* Every package of the source-name index is a key of the installation map
\* and, unless it is the project, the target of a recorded edge
IndexedPackagesInstalled ==
  \A rootSourceName \in DOMAIN map.packageByRootSourceName :
    /\ map.packageByRootSourceName[rootSourceName] \in DOMAIN map.installationMap
    /\ \/ map.packageByRootSourceName[rootSourceName] = ProjectId
       \/ \E from \in DOMAIN map.installationMap :
            \E installationName \in DOMAIN map.installationMap[from] :
              map.installationMap[from][installationName].package
                = map.packageByRootSourceName[rootSourceName]

\* The list getUserRemappings returned holds every accepted line of the
\* remappings.txt files of the package
ObservedRemappingsResolved ==
  (ret.op = "getUserRemappings" /\ "list" \in DOMAIN ret.result) =>
    /\ [ i \in DOMAIN ret.result.list |->
           <<ret.result.list[i].source, ret.result.list[i].originalFormat>> ]
         = AcceptedLinesOfFiles(map.packages[ret.npmPackage].rootFsPath,
                                RemappingsTxtFilesOf(map.packages[ret.npmPackage].rootFsPath))

\* C29: atomicity under abandonment.  When a public operation is left by an
\* unexpected error at a suspension point, every package of the source-name
\* index is a key of the installation map with its edge recorded, and no
\* later operation observes a package of the map whose user remappings are
\* unresolved or partly resolved.
C29_NoPartialPackageObservable == IndexedPackagesInstalled /\ ObservedRemappingsResolved

\* The part of C29 that holds: the source-name index and the installation
\* map agree after every step, abandoned ones included
C29_IndexedPackagesInstalled == IndexedPackagesInstalled

(***************************************************************************)
(* The table of resolved files over the resolver's lifetime                *)
(***************************************************************************)
\* The step was a successful resolution whose file was interned before it
ReachesInternedFile ==
  /\ ret'.op \in {"resolveProjectFile", "resolveImport", "resolveNpmDependencyFileAsRoot"}
  /\ ret'.result.kind = "success"
  /\ ReturnedFile'.sourceName \in DOMAIN resolvedFileBySourceName

\* Every entry of #resolvedFileBySourceName is kept as it is by the step
TableOnlyGrows ==
  \A sourceName \in DOMAIN resolvedFileBySourceName :
    /\ sourceName \in DOMAIN resolvedFileBySourceName'
    /\ resolvedFileBySourceName'[sourceName] = resolvedFileBySourceName[sourceName]

\* A resolution reaching an interned file returns the interned object and
\* reads no file
ReturnsInternedObject ==
  ReachesInternedFile =>
    /\ ReturnedFile' = resolvedFileBySourceName[ReturnedFile'.sourceName]
    /\ readCount' = readCount

\* The one validation made on the way to an interned file: resolveProjectFile
\* was given the file's path in another casing than the disk's, and
\* validated the path it was given to learn the true casing
ValidatesOnlyOtherCasing ==
  (ReachesInternedFile /\ ret'.validated # {}) =>
    /\ ret'.op = "resolveProjectFile"
    /\ ret'.absoluteFilePath # ReturnedFile'.fsPath
    /\ ToLowerCase(ret'.absoluteFilePath) = ToLowerCase(ReturnedFile'.fsPath)
    /\ ret'.validated = {ret'.absoluteFilePath}

\* C30: a cached success is final.  Once a source name is interned its entry
\* is never replaced or removed (the table only grows), and every later
\* successful resolution reaching that source name, through a user
\* remapping, through npm or as a project root, returns that same object
\* and reads no file; it validates no path either, except that
\* resolveProjectFile, given the path in another casing than the disk's,
\* validates the path it was given before it finds the interned file.
C30_CachedSuccessFinal ==
  [][TableOnlyGrows /\ ReturnsInternedObject /\ ValidatesOnlyOtherCasing]_vars

\* C30 as stated: every later successful resolution reaching an interned
\* source name returns the interned object without validating any path
C30_NeverRevalidates ==
  [][TableOnlyGrows /\ ReturnsInternedObject /\ (ReachesInternedFile => ret'.validated = {})]_vars

\* An import through npm returned, without any validation, a file that an
\* earlier call had interned, and the table holds a newer file as well
C30_Witness ==
  /\ ret.op = "resolveImport"
  /\ ret.result.kind = "success"
  /\ ret.validated = {}
  /\ ret.result.value.file.type = "NPM_PACKAGE_FILE"
  /\ ret.result.value.file = resolvedFileBySourceName[ret.result.value.file.sourceName]
  /\ ret.result.value.file.id < Cardinality(DOMAIN resolvedFileBySourceName)

(***************************************************************************)
(* The discriminants of the errors                                         *)
(***************************************************************************)
\* The enumerated discriminants of the project-root errors
ProjectRootErrorKinds ==
  { "PROJECT_ROOT_FILE_NOT_IN_PROJECT", "PROJECT_ROOT_FILE_DOESNT_EXIST",
    "PROJECT_ROOT_FILE_IN_NODE_MODULES" }

\* The enumerated discriminants of the npm-root errors
NpmRootErrorKinds ==
  { "NPM_ROOT_FILE_NAME_WITH_INVALID_FORMAT", "NPM_ROOT_FILE_RESOLVES_TO_PROJECT_FILE",
    "NPM_ROOT_FILE_OF_UNINSTALLED_PACKAGE", "NPM_ROOT_FILE_OF_PACKAGE_WITH_REMAPPING_ERRORS",
    "NPM_ROOT_FILE_DOESNT_EXIST_WITHIN_ITS_PACKAGE", "NPM_ROOT_FILE_WITH_INCORRRECT_CASING",
    "NPM_ROOT_FILE_NON_EXPORTED_FILE" }

\* The enumerated discriminants of the import errors
ImportErrorKinds ==
  { "IMPORT_WITH_WINDOWS_PATH_SEPARATORS", "ILLEGAL_RELATIVE_IMPORT", "IMPORT_DOESNT_EXIST",
    "IMPORT_INVALID_CASING", "IMPORT_WITH_INVALID_NPM_SYNTAX", "IMPORT_OF_UNINSTALLED_PACKAGE",
    "IMPORT_OF_NPM_PACKAGE_WITH_REMAPPING_ERRORS", "IMPORT_OF_NON_EXPORTED_NPM_FILE" }

\* The two user-remapping discriminants other than the slash-endings one
OtherUserRemappingErrorKinds ==
  { "REMAPPING_WITH_INVALID_SYNTAX", "REMAPPING_TO_UNINSTALLED_PACKAGE" }

\* The enumerated discriminants of the family of the error the last call
\* returned
FamilyOfLastCall ==
  CASE ret.op = "resolveProjectFile" -> ProjectRootErrorKinds
    [] ret.op = "resolveNpmDependencyFileAsRoot" -> NpmRootErrorKinds
    [] OTHER -> ImportErrorKinds

\* The error value of the last call is of the enumerated family
ReturnedErrorOfItsFamily ==
  ( /\ ret.op \in {"resolveProjectFile", "resolveNpmDependencyFileAsRoot", "resolveImport"}
    /\ ret.result.kind = "failure" )
  => ret.result.error.type \in FamilyOfLastCall

\* C31: the discriminants of the errors are the enumerated strings.  Every
\* user-remapping error reported by the map or the resolver has one of the
\* discriminants REMAPPING_WITH_INVALID_SYNTAX,
\* REMAPPING_TO_UNINSTALLED_PACKAGE and ILLEGAL_REMAPPING_WITHOUT_SLASH_ENDINGS,
\* and every error value returned by resolveProjectFile,
\* resolveNpmDependencyFileAsRoot and resolveImport has one of the enumerated
\* discriminants of its family.
C31_DiscriminantsAsEnumerated ==
  /\ ReturnedErrorOfItsFamily
  /\ \A i \in DOMAIN ReportedRemappingErrors(ret) :
       ReportedRemappingErrors(ret)[i].type \in
         OtherUserRemappingErrorKinds \cup {"ILLEGAL_REMAPPING_WITHOUT_SLASH_ENDINGS"}

(***************************************************************************)
(* The work queue of the package map                                       *)
(***************************************************************************)
\* Every package of the map was enqueued once, in the order of insertion
EnqueuedOnce(m) == m.enqueued = [i \in 1..Len(m.packages) |-> i]

\* The queue holds the packages enqueued last, and the packages were taken
\* for the discovery of their remappings.txt files in the order of insertion
FirstInFirstOut(m) ==
  /\ EndsWith(m.enqueued, m.remappingsToResolve)
  /\ \A i, j \in DOMAIN m.discovered : i < j => m.discovered[i] <= m.discovered[j]

\* The source and the line of the remappings stored for the package
StoredLinesOf(m, npmPackage) ==
  [ i \in DOMAIN m.userRemappingsPerPackage[npmPackage] |->
      << m.userRemappingsPerPackage[npmPackage][i].source,
         m.userRemappingsPerPackage[npmPackage][i].originalFormat >> ]

\* The package is in the queue
Queued(m, npmPackage) == \E i \in DOMAIN m.remappingsToResolve : m.remappingsToResolve[i] = npmPackage

\* No accepted line of the remappings.txt files of a package is stored
\* twice: the list of a package that left the queue has one remapping for
\* each accepted line, in their order, and the list of a queued package the
\* first of them
NothingStoredTwice(m) ==
  \A npmPackage \in DOMAIN m.userRemappingsPerPackage :
    LET accepted == AcceptedLinesOfFiles(m.packages[npmPackage].rootFsPath,
                      RemappingsTxtFilesOf(m.packages[npmPackage].rootFsPath))
    IN /\ StartsWith(accepted, StoredLinesOf(m, npmPackage))
       /\ ~Queued(m, npmPackage) => StoredLinesOf(m, npmPackage) = accepted

\* The files of every package that left the queue were discovered once, and
\* those of a queued package not yet
DiscoveredOnce(m) ==
  \A npmPackage \in DOMAIN m.packages :
    Occurrences(m.discovered, npmPackage) = IF Queued(m, npmPackage) THEN 0 ELSE 1

\* The files of a package were discovered once for each time the loop was
\* left by an error while it worked on the package, and once more when the
\* package left the queue
DiscoveredOncePerAttempt(m) ==
  \A npmPackage \in DOMAIN m.packages :
    Occurrences(m.discovered, npmPackage)
      = Occurrences(m.abandoned, npmPackage) + IF Queued(m, npmPackage) THEN 0 ELSE 1

EdgesTo(m, npmPackage) ==
  { <<from, installationName>> \in UNION { {from} \X DOMAIN m.installationMap[from] :
                                            from \in DOMAIN m.installationMap } :
      m.installationMap[from][installationName].package = npmPackage }

LoopReturned == loop.pc = "idle" /\ map.remappingsToResolve = <<>>

\* C33: queue draining terminates.  Whenever create or
\* resolveDependencyByInstallationName has started the loop of the work
\* queue, also on projects whose remappings form cycles (a remaps into c and
\* c into a, a remaps into itself and into the project), the loop eventually
\* reaches an empty queue and the method returns.
C33_QueueDrainingTerminates == (loop.pc = "running") ~> LoopReturned

\* The package reaches some package through its installation map
RemapsInto(m, from, to) ==
  \E installationName \in DOMAIN m.installationMap[from] :
    m.installationMap[from][installationName].package = to

\* create has returned with an empty queue on a project where a package
\* remaps into a second one that remaps back into it, into itself and into
\* the project
C33_Witness ==
  /\ phase = "created"
  /\ LoopReturned
  /\ ret.op = "create"
  /\ \E a, c \in DOMAIN map.packages \ {ProjectId} :
       /\ a # c
       /\ RemapsInto(map, a, c)
       /\ RemapsInto(map, c, a)
       /\ RemapsInto(map, a, a)
       /\ RemapsInto(map, a, ProjectId)
       /\ RemapsInto(map, ProjectId, a)

(***************************************************************************)
(* Priority of the user remappings                                         *)
(***************************************************************************)
\* The step was resolveImport with a direct import that a user remapping of
\* the package of `from` matches
DirectImportMatched ==
  /\ ret'.op = "resolveImport"
  /\ ~Includes(ret'.importPath, <<"\\">>)
  /\ ~IsRelativeImport(ret'.importPath)
  /\ BestUserRemappingOf(ret'.from, ret'.importPath) # None

\* The import was resolved through the best user remapping and nothing else:
\* the package map is left as it was, a success carries that remapping and
\* the file named by the remapped import, a failure is that of the remapped
\* file and names the remapping
ResolvedThroughRemapping(best) ==
  /\ map' = map
  /\ ret'.result = ResolveUserRemappedImport(ResolverState, ret'.from, ret'.importPath,
                                             ret'.importPath, best).result
  /\ ret'.result.kind \in {"success", "failure"}
  /\ ret'.result.kind = "success" =>
       /\ ret'.result.value.remapping = best
       /\ ret'.result.value.file.sourceName = applyValidRemapping(ret'.importPath, best)
  /\ ret'.result.kind = "failure" =>
       /\ ret'.result.error.type \in {"IMPORT_DOESNT_EXIST", "IMPORT_INVALID_CASING"}
       /\ ret'.result.error.userRemapping = [remapping |-> best]

\* C34: user remappings take priority over npm resolution for direct
\* imports.  When a user remapping of from.package matches a direct import,
\* resolveImport resolves through that remapping only: a success carries
\* that remapping, npm resolution and the direct-local fallback are not
\* attempted (also when the remapped file does not exist and a package of
\* that name is installed), and the package map is left unchanged.
C34_UserRemappingPriority ==
  [][DirectImportMatched => ResolvedThroughRemapping(BestUserRemappingOf(ret'.from, ret'.importPath))]_vars

\* The import m/M.sol, remapped into the project where the remapped file does
\* not exist, failed although the package m is installed, and no file of m
\* was resolved
C34_Witness ==
  /\ ret.op = "resolveImport"
  /\ ret.importPath = <<"m","/","M">> \o DotSol
  /\ ret.result.kind = "failure"
  /\ ret.result.error.type = "IMPORT_DOESNT_EXIST"
  /\ ret.result.error.userRemapping # None
  /\ findDependencyPackageJson(RootP, <<"m">>) # None
  /\ \A sn \in DOMAIN resolvedFileBySourceName :
       map.packages[resolvedFileBySourceName[sn].package].name # <<"m">>

(***************************************************************************)
(* The root source name of a dependency found by installation name         *)
(***************************************************************************)
\* The path has a segment node_modules above its last segment
UnderNodeModulesSegment(fsPath) ==
  \E i \in 1..(Len(Split(fsPath, PathSep)) - 1) : Split(fsPath, PathSep)[i] = S_node_modules

\* The path lies under the directory
UnderDirectory(fsPath, dir) == StartsWith(fsPath, dir \o <<PathSep>>)

\* The version the root source name is stated to carry for the package.json
\* found at that path
StatedVersion(packageJsonFsPath) ==
  IF ~UnderNodeModulesSegment(packageJsonFsPath) /\ ~UnderDirectory(packageJsonFsPath, fs.projectRoot)
  THEN S_local
  ELSE readJsonFile(packageJsonFsPath).version

\* The root source name stated for the package.json found at that path
StatedRootSourceName(packageJsonFsPath) ==
  IF packageJsonFsPath = PathJoin(<<fs.projectRoot, S_package_json>>)
  THEN HARDHAT_PROJECT_ROOT_SOURCE_NAME
  ELSE S_npm_slash \o readJsonFile(packageJsonFsPath).name \o <<"@">> \o StatedVersion(packageJsonFsPath)

\* The package.json the lookup of the installation name locates from the
\* package
Located(from, installationName) ==
  findDependencyPackageJson(map.packages[from].rootFsPath, installationName)

\* The dependencies found by installation name: the edges of the map
FoundDependencies ==
  { <<from, installationName>> \in (DOMAIN map.packages) \X InstallationNameInputs :
      installationName \in DOMAIN map.installationMap[from] }

\* The root source name of every dependency found by installation name is
\* "project" exactly when the located package.json is the project's own, and
\* then the package is the project's; otherwise it is made of the declared
\* name and of the version the code computes
RootSourceNameOfLocated ==
  \A e \in FoundDependencies :
    LET located == Located(e[1], e[2])
        dependency == map.packages[map.installationMap[e[1]][e[2]].package]
    IN /\ located # None
       /\ (dependency.rootSourceName = HARDHAT_PROJECT_ROOT_SOURCE_NAME)
            <=> (located.path = PathJoin(<<fs.projectRoot, S_package_json>>))
       /\ (dependency.rootSourceName = HARDHAT_PROJECT_ROOT_SOURCE_NAME)
            <=> (dependency.id = ProjectId)
       /\ dependency.id # ProjectId =>
            /\ dependency.rootSourceName =
                 S_npm_slash \o readJsonFile(located.path).name \o <<"@">> \o dependency.version
            /\ dependency.version \in {S_local, readJsonFile(located.path).version}
            /\ e[2] # readJsonFile(located.path).name =>
                 ~StartsWith(dependency.rootSourceName, S_npm_slash \o e[2] \o <<"@">>)

\* C35: the root source name of a dependency found by installation name is
\* "project" exactly when the located package.json is the project's own, and
\* otherwise npm/<declared name>@<version>, where the version is "local"
\* exactly when the located package.json is neither under any node_modules
\* segment nor under the project root, and the declared version otherwise;
\* a dependency that resolves to the project's own package.json reuses the
\* project Package.
C35_RootSourceNameOfDependency ==
  phase = "created" =>
    /\ RootSourceNameOfLocated
    /\ \A e \in FoundDependencies :
         map.packages[map.installationMap[e[1]][e[2]].package].rootSourceName
           = StatedRootSourceName(Located(e[1], e[2]).path)

(***************************************************************************)
(* Failed resolutions and the table of resolved files                      *)
(***************************************************************************)
\* The three resolutions of the resolver
Resolutions == {"resolveProjectFile", "resolveImport", "resolveNpmDependencyFileAsRoot"}

\* What a resolution was asked to resolve
RequestOf(r) ==
  IF r.op = "resolveProjectFile" THEN <<r.absoluteFilePath>>
  ELSE IF r.op = "resolveImport" THEN <<r.from, r.importPath>>
  ELSE <<r.npmModule>>

\* The step is a resolution that returns a failure value
ReturnsFailure == calls' = calls + 1 /\ ret'.op \in Resolutions /\ ret'.result.kind = "failure"

\* The step repeats the resolution that failed last because its file did not
\* exist
RepeatsMissingFile ==
  /\ calls' = calls + 1
  /\ ret.op \in Resolutions
  /\ ret'.op = ret.op
  /\ RequestOf(ret') = RequestOf(ret)
  /\ ret.result.kind = "failure"
  /\ ret.result.error.type \in {"PROJECT_ROOT_FILE_DOESNT_EXIST", "IMPORT_DOESNT_EXIST",
                                "NPM_ROOT_FILE_DOESNT_EXIST_WITHIN_ITS_PACKAGE"}

\* The path the failed resolution validated is that of a file written after
\* the resolver was created, and the file is there now
WrittenSince == ret.validated \subseteq (fs.files \cap LateFiles)

\* What a step repeating a resolution of a missing file does: it validates
\* the same path again and, once the file was written, succeeds and interns
\* the file (resolveProjectFile refuses it when the file that now exists lies
\* in node_modules)
AttemptsFromScratch ==
  RepeatsMissingFile =>
    /\ ret'.validated = ret.validated
    /\ ret'.validated # {}
    /\ WrittenSince =>
         \/ /\ ret'.result.kind = "success"
            /\ ReturnedFile'.fsPath \in ret.validated
            /\ ReturnedFile'.sourceName \notin DOMAIN resolvedFileBySourceName
            /\ resolvedFileBySourceName'[ReturnedFile'.sourceName] = ReturnedFile'
         \/ /\ ret'.op = "resolveProjectFile"
            /\ ret'.result.kind = "failure"
            /\ ret'.result.error.type = "PROJECT_ROOT_FILE_IN_NODE_MODULES"

\* The step interned at most the project file that the import resolution of
\* resolveNpmDependencyFileAsRoot reached through a user remapping
InternsReachedProjectFile ==
  /\ TableOnlyGrows
  /\ \A sourceName \in DOMAIN resolvedFileBySourceName' \ DOMAIN resolvedFileBySourceName :
       /\ resolvedFileBySourceName'[sourceName].type = "PROJECT_FILE"
       /\ sourceName = applyValidRemapping(ret'.npmModule, ret'.result.error.userRemapping)
  /\ Cardinality(DOMAIN resolvedFileBySourceName') <= Cardinality(DOMAIN resolvedFileBySourceName) + 1

\* C36, amended: whenever resolveProjectFile, resolveNpmDependencyFileAsRoot
\* or resolveImport returns a failure value, no entry was added to or changed
\* in the file table, except that resolveNpmDependencyFileAsRoot returning
\* NPM_ROOT_FILE_RESOLVES_TO_PROJECT_FILE may have interned the project file
\* its import resolved to; a later resolution of a source name whose file
\* did not exist validates the path again and succeeds once the file exists.
C36_FailureInternsNoFailedFile ==
  [][/\ ReturnsFailure =>
          IF ret'.result.error.type = "NPM_ROOT_FILE_RESOLVES_TO_PROJECT_FILE"
          THEN InternsReachedProjectFile
          ELSE resolvedFileBySourceName' = resolvedFileBySourceName
     /\ AttemptsFromScratch]_vars

\* C36 as stated: a failed resolution leaves the file table unchanged.
\* Whenever resolveProjectFile, resolveNpmDependencyFileAsRoot or
\* resolveImport returns a failure value, no entry was added to or changed in
\* the table, so a later resolution of the same source name validates the
\* path again and succeeds once the file exists.
C36_FailureLeavesTableUnchanged ==
  [][/\ ReturnsFailure => resolvedFileBySourceName' = resolvedFileBySourceName
     /\ AttemptsFromScratch]_vars

\* An import through npm failed because its file did not exist, the table
\* holds the importing file only, and the file was written since
C36_Witness ==
  /\ ret.op = "resolveImport"
  /\ ret.result.kind = "failure"
  /\ ret.result.error.type = "IMPORT_DOESNT_EXIST"
  /\ ret.result.error.npmPackage # None
  /\ ret.validated # {}
  /\ WrittenSince
  /\ DOMAIN resolvedFileBySourceName = {ret.from.sourceName}

(***************************************************************************)
(* The assertions of resolveNpmDependencyFileAsRoot                        *)
(***************************************************************************)
\* The failure of the import resolution is one the assertions guard
GuardedByAssertion(importResult) ==
  /\ importResult.kind = "failure"
  /\ importResult.error.type \in {"IMPORT_DOESNT_EXIST", "IMPORT_INVALID_CASING"}

\* The step was resolveNpmDependencyFileAsRoot with a module that parses, and
\* its import resolution failed with an error the assertions guard: the error
\* names an npm package and the call returned a value
ImportErrorNamesNpmPackage ==
  ( /\ ret'.op = "resolveNpmDependencyFileAsRoot"
    /\ parseNpmDirectImport(ret'.npmModule) # None
    /\ GuardedByAssertion(ImportOfRootOf(ret'.npmModule)) )
  => /\ ImportOfRootOf(ret'.npmModule).error.npmPackage # None
     /\ ret'.result.kind = "failure"
     /\ ret'.result.error.type \in {"NPM_ROOT_FILE_DOESNT_EXIST_WITHIN_ITS_PACKAGE",
                                    "NPM_ROOT_FILE_WITH_INCORRRECT_CASING"}

\* C37: whenever the import resolution made inside
\* resolveNpmDependencyFileAsRoot fails with IMPORT_DOESNT_EXIST or
\* IMPORT_INVALID_CASING, the error names an npm package, so the assertions
\* guarding the two mappings never fire, whatever the module string and the
\* user remappings of the project, remappings with a local target included.
C37_AssertionsNeverFire == [][ImportErrorNamesNpmPackage]_vars

(***************************************************************************)
(* The entries of the table of resolved files                              *)
(***************************************************************************)
\* The package that owns the resolved file
OwnerOf(resolvedFile) == map.packages[resolvedFile.package]

\* The entry is keyed by the source name of its file, the source name lies
\* under the root source name of the owning package, and the file is a
\* project file exactly when its package is the project's
SelfConsistent(sourceName) ==
  LET resolvedFile == resolvedFileBySourceName[sourceName]
  IN /\ resolvedFile.sourceName = sourceName
     /\ StartsWith(sourceName, OwnerOf(resolvedFile).rootSourceName \o Slash)
     /\ (resolvedFile.type = "PROJECT_FILE") <=> (resolvedFile.package = ProjectId)
     /\ StartsWith(sourceName, HARDHAT_PROJECT_ROOT_SOURCE_NAME \o Slash)
          => resolvedFile.type = "PROJECT_FILE"

\* C38: every entry of the file table is self-consistent in every reachable
\* state: the key equals the file's sourceName, the sourceName begins with
\* the owning package's rootSourceName followed by "/", and the file is of
\* the project-file variant exactly when its package is the project package;
\* also for files interned through user remappings whose target is local,
\* an npm package, or written verbatim with an npm/ prefix.
C38_EntriesSelfConsistent ==
  \A sourceName \in DOMAIN resolvedFileBySourceName : SelfConsistent(sourceName)

\* The path of the source name inside its package, from the package's root
LocationOf(resolvedFile) ==
  PathJoin(<< OwnerOf(resolvedFile).rootFsPath,
              sourceNamePathToFsPath(Drop(resolvedFile.sourceName,
                                          Len(OwnerOf(resolvedFile).rootSourceName) + 1)) >>)

\* C39: for every interned file the source name and the file-system path
\* name the same location inside the owning package: fsPath equals
\* package.rootFsPath joined with the source name minus the prefix
\* package.rootSourceName + "/"; for project root files, npm-resolved files
\* and files resolved through a user remapping.
C39_FsPathMatchesSourceName ==
  \A sourceName \in DOMAIN resolvedFileBySourceName :
    resolvedFileBySourceName[sourceName].fsPath = LocationOf(resolvedFileBySourceName[sourceName])

(***************************************************************************)
(* The coverage manager of LazyCoverageManager                             *)
(***************************************************************************)
\* The calls that hold the manager #getCoverageManager returned to them
CallsWithManager == { c \in CoverageCalls : coverageCalls[c].pc \in {"got", "delegated"} }

\* C40: LazyCoverageManager creates its underlying coverage manager at most
\* once: under any sequence and any interleaving of save() and load() calls
\* one public CoverageManagerImplementation is constructed and every call
\* delegates to that same instance.
C40_ManagerCreatedOnce ==
  /\ Len(constructed) <= 1
  /\ CallsWithManager # {} => Len(constructed) = 1
  /\ \A c \in CallsWithManager : coverageCalls[c].coverageManager = constructed[1]

====
